---- MODULE Spec2Model ----
(***************************************************************************)
(* go-cms-template: REST handlers over repositories over a relational      *)
(* store.  The store is the record db of tables (sets of rows); the        *)
(* constraints of table.sql are evaluated by the statement operators; a    *)
(* repository method is an operator from the store to a new store and an   *)
(* error; a handler is an action that calls its repository method, maps    *)
(* the error to a status and records the response in resp.  tasks holds    *)
(* the goroutines that reads by slug have started, lookup the read by slug *)
(* that is between two of its queries, with the states that its post has   *)
(* gone through since the read began (snaps, a history for the properties).*)
(***************************************************************************)
EXTENDS Integers, Sequences, FiniteSets, TLC

VARIABLES workload, db, nextId, clock, resp, tasks, lookup

vars == <<workload, db, nextId, clock, resp, tasks, lookup>>

\* no read by slug is between two of its queries
Idle == [pc |-> "idle"]

-----------------------------------------------------------------------------
(* Bounds *)

\* number of rows a behaviour may insert (calls of uuid.New() that are stored)
MaxId == 2
\* number of reads by slug, each starting a view-count increment, that a
\* behaviour may perform
MaxViews == 2
\* number of readings of time.Now() a behaviour may perform
MaxClock == 2

-----------------------------------------------------------------------------
(* Values *)

\* a pointer field of a request: <<>> is nil, <<v>> points to v
Opt(S) == {<<>>} \cup {<<v>> : v \in S}

IsNil(o) == o = <<>>

Deref(o) == o[1]

\* uuid.New(): the n-th identifier generated
NewUUID(n) == 100 + n

NilUUID == 0

PostStatusDraft == 1
PostStatusPublished == 2
PostStatusArchived == 3

\* SQLSTATE of a statement
PgOK == "00000"
PgUniqueViolation == "23505"
PgForeignKeyViolation == "23503"

\* errors of package repository; StorageFailure stands for every error built
\* with fmt.Errorf around the driver's error
NoErr == "nil"
ErrNotFound == "ErrNotFound"
ErrDuplicate == "ErrDuplicate"
ErrForeignKey == "ErrForeignKey"
StorageFailure == "StorageFailure"

\* the error of a statement run with a context that is done
ContextCanceled == "context.Canceled"

Ids(table) == {r.id : r \in table}

Row(table, id) == CHOOSE r \in table : r.id = id

-----------------------------------------------------------------------------
(* table.sql: constraints *)

\* content_posts.slug UNIQUE
PostsUniqueViolated(d, row) ==
    \E p \in d.content_posts : p.id # row.id /\ p.slug = row.slug

\* content_posts.content_type_id, author_id REFERENCES ...
PostsForeignKeyViolated(d, row) ==
    \/ row.content_type_id \notin Ids(d.content_types)
    \/ row.author_id \notin Ids(d.users)

\* post_tags.post_id, tag_id REFERENCES ...
PostTagsForeignKeyViolated(d, postID, tagID) ==
    \/ postID \notin Ids(d.content_posts)
    \/ tagID \notin Ids(d.tags)

\* post_media UNIQUE(post_id, media_id)
PostMediaUniqueViolated(d, row) ==
    \E pm \in d.post_media : pm.post_id = row.post_id /\ pm.media_id = row.media_id

\* post_media.post_id, media_id REFERENCES ...
PostMediaForeignKeyViolated(d, row) ==
    \/ row.post_id \notin Ids(d.content_posts)
    \/ row.media_id \notin Ids(d.media)

-----------------------------------------------------------------------------
(* Statements of the post repository.  A statement yields the store after   *)
(* it, its SQLSTATE and the number of rows it affected; a statement that    *)
(* fails changes nothing.  A unique index is checked when the row is        *)
(* written, a foreign key at the end of the statement.                      *)

Stmt(d, code, n) == [db |-> d, code |-> code, rows |-> n]

\* INSERT INTO content_posts (...) VALUES (...) RETURNING view_count, ...
InsertPost(d, row) ==
    IF PostsUniqueViolated(d, row) THEN Stmt(d, PgUniqueViolation, 0)
    ELSE IF PostsForeignKeyViolated(d, row) THEN Stmt(d, PgForeignKeyViolation, 0)
    ELSE Stmt([d EXCEPT !.content_posts = @ \cup {row}], PgOK, 1)

\* INSERT INTO post_tags (post_id, tag_id) VALUES ($1, $2) ON CONFLICT DO NOTHING
InsertPostTag(d, postID, tagID) ==
    IF <<postID, tagID>> \in d.post_tags THEN Stmt(d, PgOK, 0)
    ELSE IF PostTagsForeignKeyViolated(d, postID, tagID)
         THEN Stmt(d, PgForeignKeyViolation, 0)
    ELSE Stmt([d EXCEPT !.post_tags = @ \cup {<<postID, tagID>>}], PgOK, 1)

\* faulty variant of DeletePostTags (sensitivity of C2): nothing is deleted
DeletePostTagsKeepsRows(d, postID) == Stmt(d, PgOK, 0)

\* DELETE FROM post_tags WHERE post_id = $1
DeletePostTags(d, postID) ==
    Stmt([d EXCEPT !.post_tags = {pt \in @ : pt[1] # postID}], PgOK,
         Cardinality({pt \in d.post_tags : pt[1] = postID}))

\* faulty variant of PostSetClauses (sensitivity of C8): no clause for title
PostSetClausesWithoutTitle(req) ==
    {f \in {"content_type_id", "slug", "status"} : ~IsNil(req[f])}

\* the SET clauses of ContentPostRepository.Update applied to a row: a field
\* of the request that is nil adds no clause
PostSetClauses(req) ==
    {f \in {"content_type_id", "title", "slug", "status"} : ~IsNil(req[f])}

PostApplySet(row, req) ==
    [f \in DOMAIN row |->
        IF f \in PostSetClauses(req) THEN Deref(req[f]) ELSE row[f]]

\* UPDATE content_posts SET ... WHERE id = $n
UpdatePostRow(d, id, req) ==
    IF id \notin Ids(d.content_posts) THEN Stmt(d, PgOK, 0)
    ELSE LET old == Row(d.content_posts, id)
             new == PostApplySet(old, req)
         IN IF PostsUniqueViolated(d, new) THEN Stmt(d, PgUniqueViolation, 0)
            ELSE IF PostsForeignKeyViolated(d, new)
                 THEN Stmt(d, PgForeignKeyViolation, 0)
            ELSE Stmt([d EXCEPT !.content_posts = (@ \ {old}) \cup {new}], PgOK, 1)

\* DELETE FROM content_posts WHERE id = $1 (post_media and post_tags rows of
\* the post go with it: ON DELETE CASCADE)
DeletePostRow(d, id) ==
    IF id \notin Ids(d.content_posts) THEN Stmt(d, PgOK, 0)
    ELSE Stmt([d EXCEPT !.content_posts = {p \in @ : p.id # id},
                        !.post_tags = {pt \in @ : pt[1] # id},
                        !.post_media = {pm \in @ : pm.post_id # id}], PgOK, 1)

\* INSERT INTO post_media (...) VALUES (...) RETURNING created_at
InsertPostMedia(d, row) ==
    IF PostMediaUniqueViolated(d, row) THEN Stmt(d, PgUniqueViolation, 0)
    ELSE IF PostMediaForeignKeyViolated(d, row) THEN Stmt(d, PgForeignKeyViolation, 0)
    ELSE Stmt([d EXCEPT !.post_media = @ \cup {row}], PgOK, 1)

\* DELETE FROM post_media WHERE post_id = $1 AND media_id = $2
DeletePostMedia(d, postID, mediaID) ==
    LET hit == {pm \in d.post_media : pm.post_id = postID /\ pm.media_id = mediaID}
    IN Stmt([d EXCEPT !.post_media = @ \ hit], PgOK, Cardinality(hit))

\* UPDATE content_posts SET view_count = 1 WHERE id = $1: the counter
\* written from a value read earlier
BumpViewCountFromStaleRead(d, id) ==
    Stmt([d EXCEPT !.content_posts =
            {IF p.id = id THEN [p EXCEPT !.view_count = 1] ELSE p : p \in @}],
         PgOK, Cardinality({p \in d.content_posts : p.id = id}))

\* UPDATE content_posts SET view_count = view_count + 1 WHERE id = $1
BumpViewCount(d, id) ==
    Stmt([d EXCEPT !.content_posts =
            {IF p.id = id THEN [p EXCEPT !.view_count = @ + 1] ELSE p : p \in @}],
         PgOK, Cardinality({p \in d.content_posts : p.id = id}))

-----------------------------------------------------------------------------
(* Transactions: Begin takes the store as the transaction's working copy,  *)
(* Commit makes the working copy the store, the deferred Rollback of a      *)
(* method that returns before Commit leaves the store as it was.           *)

Commit(before, tx) == tx

\* faulty variant of Rollback (sensitivity of C1): the writes of the
\* transaction stay in the store
RollbackKeepsWrites(before, tx) == tx

Rollback(before, tx) == before

\* a repository result: the store after the call, the error, the entity
Result(d, err, data) == [db |-> d, err |-> err, data |-> data]

NoData == <<>>

-----------------------------------------------------------------------------
(* ContentPostRepository *)

\* the switch on pgErr.Code of Create, Update and AttachMedia
PostPgErr(code) ==
    IF code = PgUniqueViolation THEN ErrDuplicate
    ELSE IF code = PgForeignKeyViolation THEN ErrForeignKey
    ELSE StorageFailure

RECURSIVE attachTagsTx(_, _, _)
\* yields the working copy and the error; the loop stops at the first tag
\* whose insert fails and wraps the driver's error with fmt.Errorf
attachTagsTx(tx, postID, tagIDs) ==
    IF tagIDs = <<>> THEN [db |-> tx, err |-> NoErr]
    ELSE LET r == InsertPostTag(tx, postID, Head(tagIDs))
         IN IF r.code # PgOK THEN [db |-> r.db, err |-> StorageFailure]
            ELSE attachTagsTx(r.db, postID, Tail(tagIDs))

getPostTags(d, postID) ==
    {t \in d.tags : <<postID, t.id>> \in d.post_tags}

getPostMedia(d, postID) ==
    {[pm |-> pm, media |-> Row(d.media, pm.media_id)] :
        pm \in {x \in d.post_media : x.post_id = postID}}

PostGetByID(d, id) ==
    IF id \notin Ids(d.content_posts) THEN Result(d, ErrNotFound, NoData)
    ELSE LET p == Row(d.content_posts, id)
         IN Result(d, NoErr,
                [post |-> p,
                 content_type |-> Row(d.content_types, p.content_type_id),
                 author |-> Row(d.users, p.author_id),
                 tags |-> getPostTags(d, id),
                 media |-> getPostMedia(d, id)])

PostGetBySlug(d, slug) ==
    IF ~\E p \in d.content_posts : p.slug = slug THEN Result(d, ErrNotFound, NoData)
    ELSE PostGetByID(d, (CHOOSE p \in d.content_posts : p.slug = slug).id)

PostCreate(d, id, req) ==
    LET post == [id |-> id,
                 content_type_id |-> req.content_type_id,
                 author_id |-> req.author_id,
                 title |-> req.title,
                 slug |-> req.slug,
                 status |-> IF IsNil(req.status) THEN PostStatusDraft
                            ELSE Deref(req.status),
                 view_count |-> 0]
        ins == InsertPost(d, post)
    IN IF ins.code # PgOK
       THEN Result(Rollback(d, ins.db), PostPgErr(ins.code), NoData)
       ELSE LET att == IF Len(req.tag_ids) > 0
                       THEN attachTagsTx(ins.db, id, req.tag_ids)
                       ELSE [db |-> ins.db, err |-> NoErr]
            IN IF att.err # NoErr
               THEN Result(Rollback(d, att.db), att.err, NoData)
               ELSE Result(Commit(d, att.db), NoErr, post)

PostUpdate(d, id, req) ==
    LET hasSet == PostSetClauses(req) # {}
        upd == IF hasSet THEN UpdatePostRow(d, id, req) ELSE Stmt(d, PgOK, 0)
    IN IF hasSet /\ upd.code # PgOK
       THEN Result(Rollback(d, upd.db), PostPgErr(upd.code), NoData)
       ELSE IF hasSet /\ upd.rows = 0
       THEN Result(Rollback(d, upd.db), ErrNotFound, NoData)
       ELSE LET del == IF IsNil(req.tag_ids) THEN upd
                       ELSE DeletePostTags(upd.db, id)
                att == IF ~IsNil(req.tag_ids) /\ Len(Deref(req.tag_ids)) > 0
                       THEN attachTagsTx(del.db, id, Deref(req.tag_ids))
                       ELSE [db |-> del.db, err |-> NoErr]
            IN IF att.err # NoErr
               THEN Result(Rollback(d, att.db), att.err, NoData)
               ELSE LET after == Commit(d, att.db)
                        got == PostGetByID(after, id)
                    IN Result(after, got.err, got.data)

PostDelete(d, id) ==
    LET del == DeletePostRow(d, id)
    IN IF del.rows = 0 THEN Result(d, ErrNotFound, NoData)
       ELSE Result(del.db, NoErr, NoData)

PostAttachMedia(d, id, postID, req) ==
    LET pm == [id |-> id, post_id |-> postID, media_id |-> req.media_id,
               media_role |-> req.media_role,
               display_order |-> IF IsNil(req.display_order) THEN 0
                                 ELSE Deref(req.display_order)]
        ins == InsertPostMedia(d, pm)
    IN IF ins.code # PgOK THEN Result(d, PostPgErr(ins.code), NoData)
       ELSE Result(ins.db, NoErr, pm)

PostDetachMedia(d, postID, mediaID) ==
    LET del == DeletePostMedia(d, postID, mediaID)
    IN IF del.rows = 0 THEN Result(d, ErrNotFound, NoData)
       ELSE Result(del.db, NoErr, NoData)

\* Exec returns the error of the context, without running the statement,
\* when the context is done
PostIncrementViewCount(d, id, ctxDone) ==
    IF ctxDone THEN Result(d, ContextCanceled, NoData)
    ELSE Result(BumpViewCount(d, id).db, NoErr, NoData)

-----------------------------------------------------------------------------
(* TagRepository *)

\* faulty variant of TagsUniqueViolated (sensitivity of C3): no unique index
\* on tags.name
TagsUniqueViolatedSlugOnly(d, row) ==
    \E t \in d.tags : t.id # row.id /\ t.slug = row.slug

\* tags.name UNIQUE, tags.slug UNIQUE
TagsUniqueViolated(d, row) ==
    \E t \in d.tags : t.id # row.id /\ (t.name = row.name \/ t.slug = row.slug)

\* the fields of an update request that are not nil
SetClauses(req) == {f \in DOMAIN req : ~IsNil(req[f])}

\* the SET clauses applied to a row
ApplySet(row, req) ==
    [f \in DOMAIN row |->
        IF f \in SetClauses(req) THEN Deref(req[f]) ELSE row[f]]

\* if errors.As(err, &pgErr) && pgErr.Code == "23505"
DuplicateOrFailure(code) ==
    IF code = PgUniqueViolation THEN ErrDuplicate ELSE StorageFailure

TagCreate(d, id, req) ==
    LET tag == [id |-> id, name |-> req.name, slug |-> req.slug]
    IN IF TagsUniqueViolated(d, tag)
       THEN Result(d, DuplicateOrFailure(PgUniqueViolation), NoData)
       ELSE Result([d EXCEPT !.tags = @ \cup {tag}], NoErr, tag)

TagGetByID(d, id) ==
    IF id \in Ids(d.tags) THEN Result(d, NoErr, Row(d.tags, id))
    ELSE Result(d, ErrNotFound, NoData)

TagGetBySlug(d, slug) ==
    IF \E t \in d.tags : t.slug = slug
    THEN Result(d, NoErr, CHOOSE t \in d.tags : t.slug = slug)
    ELSE Result(d, ErrNotFound, NoData)

TagUpdate(d, id, req) ==
    IF SetClauses(req) = {} THEN TagGetByID(d, id)
    ELSE IF id \notin Ids(d.tags) THEN Result(d, ErrNotFound, NoData)
    ELSE LET old == Row(d.tags, id)
             new == ApplySet(old, req)
         IN IF TagsUniqueViolated(d, new)
            THEN Result(d, DuplicateOrFailure(PgUniqueViolation), NoData)
            ELSE Result([d EXCEPT !.tags = (@ \ {old}) \cup {new}], NoErr, new)

\* faulty variant of TagDelete (sensitivity of C28): the rows of post_tags
\* that name the tag stay
TagDeleteKeepsAssociations(d, id) ==
    IF id \notin Ids(d.tags) THEN Result(d, ErrNotFound, NoData)
    ELSE Result([d EXCEPT !.tags = {t \in @ : t.id # id}], NoErr, NoData)

\* DELETE FROM tags WHERE id = $1 (post_tags.tag_id is ON DELETE CASCADE)
TagDelete(d, id) ==
    IF id \notin Ids(d.tags) THEN Result(d, ErrNotFound, NoData)
    ELSE Result([d EXCEPT !.tags = {t \in @ : t.id # id},
                          !.post_tags = {pt \in @ : pt[2] # id}], NoErr, NoData)

-----------------------------------------------------------------------------
(* ContentTypeRepository *)

\* content_types.name UNIQUE, content_types.slug UNIQUE
ContentTypesUniqueViolated(d, row) ==
    \E c \in d.content_types :
        c.id # row.id /\ (c.name = row.name \/ c.slug = row.slug)

\* faulty variant of ContentTypeDeleteRestricted (sensitivity of C5): the
\* reference does not restrict the delete
ContentTypeDeleteUnrestricted(d, id) == FALSE

\* content_posts.content_type_id REFERENCES content_types(id) ON DELETE RESTRICT
ContentTypeDeleteRestricted(d, id) ==
    \E p \in d.content_posts : p.content_type_id = id

ContentTypeCreate(d, id, req) ==
    LET ct == [id |-> id, name |-> req.name, slug |-> req.slug,
               is_active |-> IF IsNil(req.is_active) THEN TRUE
                             ELSE Deref(req.is_active),
               display_order |-> IF IsNil(req.display_order) THEN 0
                                 ELSE Deref(req.display_order)]
    IN IF ContentTypesUniqueViolated(d, ct)
       THEN Result(d, DuplicateOrFailure(PgUniqueViolation), NoData)
       ELSE Result([d EXCEPT !.content_types = @ \cup {ct}], NoErr, ct)

ContentTypeGetByID(d, id) ==
    IF id \in Ids(d.content_types) THEN Result(d, NoErr, Row(d.content_types, id))
    ELSE Result(d, ErrNotFound, NoData)

ContentTypeGetBySlug(d, slug) ==
    IF \E c \in d.content_types : c.slug = slug
    THEN Result(d, NoErr, CHOOSE c \in d.content_types : c.slug = slug)
    ELSE Result(d, ErrNotFound, NoData)

ContentTypeUpdate(d, id, req) ==
    IF SetClauses(req) = {} THEN ContentTypeGetByID(d, id)
    ELSE IF id \notin Ids(d.content_types) THEN Result(d, ErrNotFound, NoData)
    ELSE LET old == Row(d.content_types, id)
             new == ApplySet(old, req)
         IN IF ContentTypesUniqueViolated(d, new)
            THEN Result(d, DuplicateOrFailure(PgUniqueViolation), NoData)
            ELSE Result([d EXCEPT !.content_types = (@ \ {old}) \cup {new}],
                        NoErr, new)

\* if errors.As(err, &pgErr) && pgErr.Code == "23503"
ForeignKeyOrFailure(code) ==
    IF code = PgForeignKeyViolation THEN ErrForeignKey ELSE StorageFailure

ContentTypeDelete(d, id) ==
    IF id \notin Ids(d.content_types) THEN Result(d, ErrNotFound, NoData)
    ELSE IF ContentTypeDeleteRestricted(d, id)
    THEN Result(d, ForeignKeyOrFailure(PgForeignKeyViolation), NoData)
    ELSE Result([d EXCEPT !.content_types = {c \in @ : c.id # id}], NoErr, NoData)

-----------------------------------------------------------------------------
(* MediaRepository *)

\* media.object_key UNIQUE
MediaUniqueViolated(d, row) ==
    \E m \in d.media : m.id # row.id /\ m.object_key = row.object_key

\* post_media.media_id REFERENCES media(id) ON DELETE CASCADE: the rows of
\* post_media that a delete of the media row takes with it
MediaDeleteCascade(d, id) == {pm \in d.post_media : pm.media_id = id}

\* a delete of the media row is refused: no constraint of table.sql does
MediaDeleteRestricted(d, id) == FALSE

MediaCreate(d, id, req) ==
    LET m == [id |-> id, file_name |-> req.file_name,
              object_key |-> req.object_key, alt_text |-> req.alt_text]
    IN IF MediaUniqueViolated(d, m)
       THEN Result(d, DuplicateOrFailure(PgUniqueViolation), NoData)
       ELSE Result([d EXCEPT !.media = @ \cup {m}], NoErr, m)

MediaGetByID(d, id) ==
    IF id \in Ids(d.media) THEN Result(d, NoErr, Row(d.media, id))
    ELSE Result(d, ErrNotFound, NoData)

\* alt_text is a nullable column: the SET clause stores the pointer's value
MediaApplySet(row, req) ==
    [f \in DOMAIN row |->
        IF f \notin SetClauses(req) THEN row[f]
        ELSE IF f = "alt_text" THEN req[f] ELSE Deref(req[f])]

MediaUpdate(d, id, req) ==
    IF SetClauses(req) = {} THEN MediaGetByID(d, id)
    ELSE IF id \notin Ids(d.media) THEN Result(d, ErrNotFound, NoData)
    ELSE LET old == Row(d.media, id)
             new == MediaApplySet(old, req)
         IN Result([d EXCEPT !.media = (@ \ {old}) \cup {new}], NoErr, new)

MediaDelete(d, id) ==
    IF id \notin Ids(d.media) THEN Result(d, ErrNotFound, NoData)
    ELSE IF MediaDeleteRestricted(d, id)
    THEN Result(d, ForeignKeyOrFailure(PgForeignKeyViolation), NoData)
    ELSE Result([d EXCEPT !.media = {m \in @ : m.id # id},
                          !.post_media = @ \ MediaDeleteCascade(d, id)],
                NoErr, NoData)

-----------------------------------------------------------------------------
(* SettingRepository.  value and description are nullable columns: a row    *)
(* holds the pointer (<<>> is NULL).                                        *)

\* settings.key UNIQUE
SettingsUniqueViolated(d, row) ==
    \E x \in d.settings : x.id # row.id /\ x.key = row.key

SettingCreate(d, id, req) ==
    LET st == [id |-> id, key |-> req.key, value |-> req.value,
               description |-> req.description]
    IN IF SettingsUniqueViolated(d, st)
       THEN Result(d, DuplicateOrFailure(PgUniqueViolation), NoData)
       ELSE Result([d EXCEPT !.settings = @ \cup {st}], NoErr, st)

SettingGetByKey(d, key) ==
    IF \E x \in d.settings : x.key = key
    THEN Result(d, NoErr, CHOOSE x \in d.settings : x.key = key)
    ELSE Result(d, ErrNotFound, NoData)

\* SET value = $1, description = $2: the clause stores the pointer's value
SettingApplySet(row, req) ==
    [f \in DOMAIN row |-> IF f \in SetClauses(req) THEN req[f] ELSE row[f]]

SettingUpdate(d, key, req) ==
    IF SetClauses(req) = {} THEN SettingGetByKey(d, key)
    ELSE IF ~\E x \in d.settings : x.key = key THEN Result(d, ErrNotFound, NoData)
    ELSE LET old == CHOOSE x \in d.settings : x.key = key
             new == SettingApplySet(old, req)
         IN Result([d EXCEPT !.settings = (@ \ {old}) \cup {new}], NoErr, new)

\* faulty variant of SettingUpsert (sensitivity of C18): a plain INSERT
\* into a table without the unique index
SettingUpsertInsertsAlways(d, id, req) ==
    LET st == [id |-> id, key |-> req.key, value |-> req.value,
               description |-> req.description]
    IN Result([d EXCEPT !.settings = @ \cup {st}], NoErr, st)

\* INSERT ... ON CONFLICT (key) DO UPDATE SET value = EXCLUDED.value,
\* description = EXCLUDED.description RETURNING id, updated_at
SettingUpsert(d, id, req) ==
    IF \E x \in d.settings : x.key = req.key
    THEN LET old == CHOOSE x \in d.settings : x.key = req.key
             new == [old EXCEPT !.value = req.value,
                                !.description = req.description]
         IN Result([d EXCEPT !.settings = (@ \ {old}) \cup {new}], NoErr, new)
    ELSE LET st == [id |-> id, key |-> req.key, value |-> req.value,
                    description |-> req.description]
         IN Result([d EXCEPT !.settings = @ \cup {st}], NoErr, st)

SettingDelete(d, key) ==
    IF ~\E x \in d.settings : x.key = key THEN Result(d, ErrNotFound, NoData)
    ELSE Result([d EXCEPT !.settings = {x \in @ : x.key # key}], NoErr, NoData)

\* faulty variant of SettingGetMultiple (sensitivity of C19): a NULL value is
\* entered as the empty string
SettingGetMultipleWithNulls(d, keys) ==
    LET rows == {x \in d.settings : \E i \in DOMAIN keys : x.key = keys[i]}
    IN Result(d, NoErr,
              [k \in {x.key : x \in rows} |->
                  LET v == (CHOOSE x \in rows : x.key = k).value
                  IN IF IsNil(v) THEN "" ELSE Deref(v)])

\* SELECT key, value FROM settings WHERE key = ANY($1): the map of the rows
\* scanned whose value is not NULL
SettingGetMultiple(d, keys) ==
    LET rows == {x \in d.settings : \E i \in DOMAIN keys : x.key = keys[i]}
    IN Result(d, NoErr,
              [k \in {x.key : x \in {y \in rows : ~IsNil(y.value)}} |->
                  Deref((CHOOSE x \in rows : x.key = k).value)])

-----------------------------------------------------------------------------
(* ContactRepository *)

ContactStatusNew == 1
ContactStatusRead == 2
ContactStatusReplied == 3
ContactStatusArchived == 4

\* the characters of the texts that are stored, searched for and parsed
Chars(s) ==
    CASE s = "" -> <<>>
      [] s = "ab" -> <<"a", "b">>
      [] s = "Ac" -> <<"A", "c">>
      [] s = "T1" -> <<"T", "1">>
      [] s = "t2" -> <<"t", "2">>
      [] s = "1.2.3.4" -> <<"1", ".", "2", ".", "3", ".", "4">>
      [] s = "5.6.7.8" -> <<"5", ".", "6", ".", "7", ".", "8">>
      [] s = "7.7.7.7" -> <<"7", ".", "7", ".", "7", ".", "7">>
      [] s = "1.2.3.4, 5.6.7.8"
           -> <<"1", ".", "2", ".", "3", ".", "4", ",", " ",
                "5", ".", "6", ".", "7", ".", "8">>
      [] s = "9.9.9.9:80"
           -> <<"9", ".", "9", ".", "9", ".", "9", ":", "8", "0">>
      [] OTHER -> <<s>>

\* the value of a decimal digit, -1 for any other character
DigitOf(c) ==
    CASE c = "0" -> 0 [] c = "1" -> 1 [] c = "2" -> 2 [] c = "3" -> 3
      [] c = "4" -> 4 [] c = "5" -> 5 [] c = "6" -> 6 [] c = "7" -> 7
      [] c = "8" -> 8 [] c = "9" -> 9 [] OTHER -> -1

\* the number that the characters cs write in decimal, -1 when cs is empty,
\* holds a character that is no digit or writes more than 255
RECURSIVE Dtoi(_, _)
Dtoi(cs, n) ==
    IF cs = <<>> THEN n
    ELSE IF DigitOf(Head(cs)) < 0 THEN -1
    ELSE IF n * 10 + DigitOf(Head(cs)) > 255 THEN -1
    ELSE Dtoi(Tail(cs), n * 10 + DigitOf(Head(cs)))

\* the fields of cs between the dots
RECURSIVE Fields(_)
Fields(cs) ==
    IF \A i \in DOMAIN cs : cs[i] # "." THEN <<cs>>
    ELSE LET i == CHOOSE k \in DOMAIN cs :
                      cs[k] = "." /\ \A j \in 1..(k - 1) : cs[j] # "."
         IN <<SubSeq(cs, 1, i - 1)>> \o Fields(SubSeq(cs, i + 1, Len(cs)))

\* net.ParseIP on a text whose first separator is a dot: the four bytes of a
\* dotted quad, nil for any other text
ParseIP(s) ==
    LET fields == Fields(Chars(s))
    IN IF /\ Len(fields) = 4
          /\ \A i \in 1..4 : fields[i] # <<>> /\ Dtoi(fields[i], 0) >= 0
       THEN <<[i \in 1..4 |-> Dtoi(fields[i], 0)]>>
       ELSE <<>>

ContactCreate(d, id, req) ==
    LET ipAddr == IF IsNil(req.ip_address) THEN <<>>
                  ELSE ParseIP(Deref(req.ip_address))
        c == [id |-> id, name |-> req.name, email |-> req.email,
              phone |-> req.phone, message |-> req.message,
              status |-> ContactStatusNew, ip_address |-> ipAddr,
              user_agent |-> req.user_agent, read_at |-> <<>>]
    IN Result([d EXCEPT !.contact_submissions = @ \cup {c}], NoErr, c)

ContactGetByID(d, id) ==
    IF id \in Ids(d.contact_submissions)
    THEN Result(d, NoErr, Row(d.contact_submissions, id))
    ELSE Result(d, ErrNotFound, NoData)

\* faulty variant of ContactStampsReadAt (sensitivity of C20): every status
\* stamps read_at
ContactStampsAnyStatus(req) == ~IsNil(req.status)

\* whether Update reads time.Now(): status is given and is "read"
ContactStampsReadAt(req) ==
    ~IsNil(req.status) /\ Deref(req.status) = ContactStatusRead

\* now is the value time.Now() returns
ContactUpdate(d, id, req, now) ==
    IF IsNil(req.status) THEN ContactGetByID(d, id)
    ELSE IF id \notin Ids(d.contact_submissions) THEN Result(d, ErrNotFound, NoData)
    ELSE LET old == Row(d.contact_submissions, id)
             new == [old EXCEPT !.status = Deref(req.status),
                                !.read_at = IF ContactStampsReadAt(req)
                                            THEN <<now>> ELSE @]
         IN Result([d EXCEPT !.contact_submissions = (@ \ {old}) \cup {new}],
                   NoErr, new)

ContactDelete(d, id) ==
    IF id \notin Ids(d.contact_submissions) THEN Result(d, ErrNotFound, NoData)
    ELSE Result([d EXCEPT !.contact_submissions = {c \in @ : c.id # id}],
                NoErr, NoData)

-----------------------------------------------------------------------------
(* package response and the handlers' mapping of repository errors *)

StatusOK == 200
StatusCreated == 201
StatusNoContent == 204
StatusBadRequest == 400
StatusNotFound == 404
StatusConflict == 409
StatusUnprocessableEntity == 422
StatusMethodNotAllowed == 405
StatusInternalServerError == 500

\* the chain of errors.Is tests of a handler: handled is the set of errors
\* the handler tests for, fk the status it answers ErrForeignKey with,
\* ok the status of its success response
\* a handler that answers every repository error the same
HandlerStatusUnmapped(err, handled, fk, ok) ==
    IF err = NoErr THEN ok ELSE StatusInternalServerError

HandlerStatus(err, handled, fk, ok) ==
    IF err = NoErr THEN ok
    ELSE IF err = ErrNotFound /\ ErrNotFound \in handled THEN StatusNotFound
    ELSE IF err = ErrDuplicate /\ ErrDuplicate \in handled THEN StatusConflict
    ELSE IF err = ErrForeignKey /\ ErrForeignKey \in handled THEN fk
    ELSE StatusInternalServerError

\* the response of a handler that called its repository
Response(op, id, req, r, status) ==
    [op |-> op, id |-> id, req |-> req, err |-> r.err, status |-> status,
     data |-> r.data, details |-> {}]

\* response.ValidationError: the repository is not called
Invalid(op, req, details) ==
    [op |-> op, id |-> NilUUID, req |-> req, err |-> NoErr,
     status |-> StatusUnprocessableEntity, data |-> NoData, details |-> details]

-----------------------------------------------------------------------------
(* Workloads.  The tables of settings, of contacts and of the content       *)
(* entities do not reference each other, so a behaviour exercises one group *)
(* of endpoints; the workloads on posts start from a store that already     *)
(* holds the content types, tags and media the posts refer to.              *)

Workloads ==
    {"tags", "content_types", "media", "settings", "contacts",
     "posts", "post_tags", "post_media", "post_views", "validation",
     "contact_client"}

EmptyDB ==
    [users |-> {[id |-> 1, full_name |-> "U"]},
     content_types |-> {}, content_posts |-> {}, media |-> {},
     post_media |-> {}, tags |-> {}, post_tags |-> {},
     contact_submissions |-> {}, settings |-> {}]

SeedContentType(id, n) ==
    [id |-> id, name |-> n, slug |-> n, is_active |-> TRUE, display_order |-> 0]

SeedTag(id, n) == [id |-> id, name |-> n, slug |-> n]

SeedMedia(id, k) == [id |-> id, file_name |-> "f", object_key |-> k, alt_text |-> <<>>]

SeedContact(id, email, status, readAt) ==
    [id |-> id, name |-> "n", email |-> email, phone |-> <<"p">>,
     message |-> "m", status |-> status, ip_address |-> <<>>,
     user_agent |-> <<"ua">>, read_at |-> readAt]

SeedPost(id, contentType, title, slug, status) ==
    [id |-> id, content_type_id |-> contentType, author_id |-> 1,
     title |-> title, slug |-> slug, status |-> status, view_count |-> 0]

SeedDB(w) ==
    IF w = "contact_list"
    THEN [EmptyDB EXCEPT !.contact_submissions =
            {SeedContact(41, "ab", ContactStatusNew, <<>>),
             SeedContact(42, "Ac", ContactStatusRead, <<0>>)}]
    ELSE IF w = "post_list"
    THEN [EmptyDB EXCEPT
            !.content_types = {SeedContentType(11, "a"), SeedContentType(12, "b")},
            !.content_posts =
                {SeedPost(51, 11, "T1", "p1", PostStatusDraft),
                 SeedPost(52, 12, "t2", "p2", PostStatusPublished)}]
    ELSE IF w = "posts"
    THEN [EmptyDB EXCEPT !.content_types =
            {SeedContentType(11, "a"), SeedContentType(12, "b")}]
    ELSE IF w = "post_tags"
    THEN [EmptyDB EXCEPT !.content_types = {SeedContentType(11, "a")},
                         !.tags = {SeedTag(21, "a"), SeedTag(22, "b")}]
    ELSE IF w = "post_media"
    THEN [EmptyDB EXCEPT !.content_types = {SeedContentType(11, "a")},
                         !.media = {SeedMedia(31, "k1")}]
    ELSE IF w = "post_views"
    THEN [EmptyDB EXCEPT !.content_types = {SeedContentType(11, "a")}]
    ELSE IF w = "validation"
    THEN [EmptyDB EXCEPT !.content_types = {SeedContentType(11, "a")},
                         !.tags = {SeedTag(21, "a")}]
    ELSE IF w = "post_lookup"
    THEN [EmptyDB EXCEPT
            !.content_types = {SeedContentType(11, "a")},
            !.tags = {SeedTag(21, "a"), SeedTag(22, "b")},
            !.content_posts = {SeedPost(51, 11, "T1", "s1", PostStatusPublished)},
            !.post_tags = {<<51, 21>>}]
    ELSE EmptyDB

\* the identifiers uuid.New() can have generated
NewIds == {NewUUID(n) : n \in 1..MaxId}

Names == {"a", "b"}

TagLists == {<<>>, <<21>>, <<21, 22>>, <<29>>, <<21, 29>>}

-----------------------------------------------------------------------------
(* Requests of each workload *)

\* the requests of the workload "validation" miss a required field
TagCreateReqs ==
    IF workload = "tags" THEN [name : Names, slug : Names]
    ELSE IF workload = "validation"
    THEN {r \in [name : {"", "b"}, slug : {"", "b"}] : "" \in {r.name, r.slug}}
    ELSE {}

TagUpdateReqs ==
    IF workload = "tags" THEN [name : Opt(Names), slug : Opt(Names)] ELSE {}

TagIdInputs ==
    IF workload = "tags" THEN NewIds
    ELSE IF workload = "post_tags" THEN {21, 22} ELSE {}

ContentTypeCreateReqs ==
    IF workload = "content_types"
    THEN {r \in [name : Names, slug : Names, is_active : Opt({FALSE}),
                  display_order : Opt({1})] :
             IsNil(r.is_active) <=> IsNil(r.display_order)}
    ELSE IF workload = "validation"
    THEN {r \in [name : {"", "b"}, slug : {"", "b"}, is_active : {<<>>},
                  display_order : {<<>>}] : "" \in {r.name, r.slug}}
    ELSE {}

ContentTypeUpdateReqs ==
    IF workload = "content_types"
    THEN {r \in [name : Opt({"b"}), slug : Opt({"b"}), is_active : Opt({FALSE}),
                  display_order : Opt({1})] :
             ~IsNil(r.display_order) => (IsNil(r.name) /\ IsNil(r.slug))}
    ELSE {}

ContentTypeIdInputs ==
    IF workload = "content_types" THEN NewIds
    ELSE IF workload = "posts" THEN {11, 12} ELSE {}

MediaCreateReqs ==
    IF workload = "media"
    THEN [file_name : {"f"}, object_key : {"k1", "k2"}, bucket_name : {"b"},
          mime_type : {"m"}, file_size : {1}, file_type : {1},
          alt_text : Opt({"x"})]
    ELSE IF workload = "validation"
    THEN {r \in [file_name : {"", "f"}, object_key : {"", "k1"},
                  bucket_name : {"", "b"}, mime_type : {"", "m"},
                  file_size : {0, 1}, file_type : {0, 1, 4},
                  alt_text : {<<>>}] :
             \/ "" \in {r.file_name, r.object_key, r.bucket_name, r.mime_type}
             \/ r.file_size = 0
             \/ r.file_type # 1}
    ELSE {}

MediaUpdateReqs ==
    IF workload = "media"
    THEN [file_name : Opt({"g"}), alt_text : Opt({"y"})]
    ELSE {}

MediaIdInputs ==
    IF workload = "media" THEN NewIds
    ELSE IF workload = "post_media" THEN {31} ELSE {}

SettingKeys == {"k1", "k2"}

SettingCreateReqs ==
    IF workload = "settings"
    THEN [key : SettingKeys, value : Opt({"v"}), description : Opt({"d"})]
    ELSE IF workload = "validation"
    THEN [key : {""}, value : Opt({"v"}), description : {<<>>}]
    ELSE {}

SettingUpdateReqs ==
    IF workload = "settings"
    THEN [value : Opt({"w"}), description : Opt({"e"})]
    ELSE {}

SettingKeyInputs == IF workload = "settings" THEN SettingKeys ELSE {}

\* the bodies of a bulk request: "k9" is the key of no setting
SettingKeyLists ==
    IF workload = "settings"
    THEN {<<>>, <<"k1">>, <<"k9">>, <<"k1", "k2", "k9">>}
    ELSE {}

\* a contact request: the fields of the body, then the headers and the
\* address of the connection (net/http gives RemoteAddr as "IP:port")
ContactCreateReqs ==
    IF workload = "contacts"
    THEN [name : {"n"}, email : {"e"}, phone : {<<"p">>}, message : {"m"},
          ip_address : {<<>>}, user_agent : {<<>>},
          x_forwarded_for : {"1.2.3.4"}, x_real_ip : {""},
          header_user_agent : {"ua"}, remote_addr : {"9.9.9.9:80"}]
    ELSE IF workload = "contact_list"
    THEN [name : {"", "n"}, email : {"ab", "Ac"}, phone : {<<"p">>}, message : {"m"},
          ip_address : {<<>>}, user_agent : {<<>>},
          x_forwarded_for : {"1.2.3.4"}, x_real_ip : {""},
          header_user_agent : {"ua"}, remote_addr : {"9.9.9.9:80"}]
    ELSE IF workload = "validation"
    THEN {r \in [name : {"", "n"}, email : {"", "e"}, phone : {<<>>},
                  message : {"", "m"},
                  ip_address : {<<>>}, user_agent : {<<>>},
                  x_forwarded_for : {""}, x_real_ip : {""},
                  header_user_agent : {"ua"}, remote_addr : {"9.9.9.9:80"}] :
             "" \in {r.name, r.email, r.message}}
    ELSE IF workload = "contact_client"
    THEN {r \in [name : {"n"}, email : {"e"}, phone : {<<>>}, message : {"m"},
                  ip_address : Opt({"7.7.7.7"}), user_agent : Opt({"bot"}),
                  x_forwarded_for : {"", "1.2.3.4", "1.2.3.4, 5.6.7.8"},
                  x_real_ip : {"", "5.6.7.8"},
                  header_user_agent : {"", "ua"},
                  remote_addr : {"9.9.9.9:80"}] :
             IsNil(r.ip_address) <=> IsNil(r.user_agent)}
    ELSE {}

ContactUpdateReqs ==
    IF workload = "contacts"
    THEN [status : Opt({ContactStatusRead, ContactStatusReplied})]
    ELSE {}

ContactIdInputs ==
    IF workload = "contacts" THEN NewIds
    ELSE IF workload = "contact_list" THEN {41, NewUUID(1)}
    ELSE {}

PostCreateReqs ==
    IF workload = "posts"
    THEN {r \in [content_type_id : {11, 19}, author_id : {1, 9}, title : {"T1"},
                  slug : {"s1", "s2"}, status : Opt({PostStatusPublished}),
                  tag_ids : {<<>>}] :
             r.slug = "s2" => (r.author_id = 1 /\ IsNil(r.status))}
    ELSE IF workload = "post_tags"
    THEN [content_type_id : {11}, author_id : {1}, title : {"T1"},
          slug : {"s1", "s2"}, status : {<<>>}, tag_ids : TagLists \ {<<21>>}]
    ELSE IF workload = "post_media"
    THEN [content_type_id : {11}, author_id : {1}, title : {"T1"},
          slug : {"s1", "s2"}, status : {<<>>}, tag_ids : {<<>>}]
    ELSE IF workload = "post_views"
    THEN [content_type_id : {11}, author_id : {1}, title : {"T1"},
          slug : {"s1"}, status : {<<>>}, tag_ids : {<<>>}]
    ELSE IF workload = "post_list"
    THEN [content_type_id : {11, 12}, author_id : {1}, title : {"T1", "t2"},
          slug : {"s1"}, status : {<<PostStatusPublished>>},
          tag_ids : {<<>>}]
    ELSE IF workload = "post_lookup"
    THEN [content_type_id : {11}, author_id : {1}, title : {"T1"},
          slug : {"s1"}, status : {<<>>}, tag_ids : {<<>>}]
    ELSE IF workload = "validation"
    THEN {r \in [content_type_id : {NilUUID, 11}, author_id : {NilUUID, 1},
                  title : {"", "T1"}, slug : {"", "s1"}, status : {<<>>},
                  tag_ids : {<<>>}] :
             \/ "" \in {r.title, r.slug}
             \/ NilUUID \in {r.content_type_id, r.author_id}}
    ELSE {}

PostUpdateReqs ==
    IF workload = "posts"
    THEN {r \in [content_type_id : Opt({12, 19}), title : Opt({"T2"}),
                  slug : Opt({"s2"}), status : {<<>>}, tag_ids : {<<>>}] :
             ~IsNil(r.content_type_id) => IsNil(r.title)}
    ELSE IF workload = "post_views"
    THEN [content_type_id : {<<>>}, title : Opt({"T2"}), slug : {<<>>},
          status : Opt({PostStatusArchived}), tag_ids : {<<>>}]
    ELSE IF workload = "post_tags"
    THEN {r \in [content_type_id : {<<>>}, title : Opt({"T2"}), slug : {<<>>},
                  status : {<<>>}, tag_ids : Opt(TagLists)] :
             ~IsNil(r.title) => r.tag_ids \in Opt({<<>>, <<21, 29>>})}
    ELSE IF workload = "post_lookup"
    THEN [content_type_id : {<<>>}, title : {<<>>}, slug : Opt({"s2"}),
          status : {<<>>}, tag_ids : Opt({<<22>>})]
    ELSE {}

PostIdInputs ==
    IF workload \in {"posts", "post_tags", "post_media", "post_views"}
    THEN NewIds
    ELSE IF workload = "post_list" THEN {51, NewUUID(1)}
    ELSE IF workload = "post_lookup" THEN {51}
    ELSE {}

PostSlugInputs ==
    IF workload \in {"posts", "post_tags", "post_media", "post_views"}
    THEN {"s1", "s2"}
    ELSE IF workload = "post_lookup" THEN {"s1"}
    ELSE {}

AttachMediaReqs ==
    IF workload = "post_media"
    THEN [media_id : {31, 39, NilUUID}, media_role : {1}, display_order : Opt({1})]
    ELSE {}

-----------------------------------------------------------------------------
(* Handlers.  A create handler generates the identifier, which counts as    *)
(* used when the row is stored.                                             *)

Init ==
    /\ workload \in Workloads
    /\ db = SeedDB(workload)
    /\ nextId = 0
    /\ clock = 0
    /\ resp = [op |-> "none", id |-> NilUUID, req |-> <<>>, err |-> NoErr,
               status |-> 0, data |-> NoData, details |-> {}]
    /\ tasks = <<>>
    /\ lookup = Idle

\* the step of a handler whose repository call returned r
\* the read by slug in progress, after its post has come to be as in d
Observe(d) ==
    IF lookup = Idle THEN lookup
    ELSE [lookup EXCEPT !.snaps = @ \cup {PostGetByID(d, lookup.id).data}]

Reply(r, newResp) ==
    /\ db' = r.db
    /\ resp' = newResp
    /\ lookup' = Observe(r.db)
    /\ UNCHANGED <<workload, clock, tasks>>

Created(r) == nextId' = IF r.err = NoErr THEN nextId + 1 ELSE nextId

\* the step of a handler that answers without calling its repository
Reject(newResp) ==
    /\ resp' = newResp
    /\ UNCHANGED <<workload, db, nextId, clock, tasks, lookup>>

\* TagHandler.Create / ContentTypeHandler.Create: the fields named in the
\* details of the validation error
NameSlugInvalid(req) ==
    IF req.name = "" \/ req.slug = "" THEN {"name", "slug"} ELSE {}

TagCreateHandler ==
    \E req \in TagCreateReqs :
        /\ nextId < MaxId
        /\ IF NameSlugInvalid(req) # {}
           THEN Reject(Invalid("TagCreate", req, NameSlugInvalid(req)))
           ELSE LET r == TagCreate(db, NewUUID(nextId + 1), req)
                IN /\ Reply(r, Response("TagCreate", NewUUID(nextId + 1), req, r,
                                HandlerStatus(r.err, {ErrDuplicate}, 0, StatusCreated)))
                   /\ Created(r)

TagGetHandler ==
    \E id \in TagIdInputs :
        LET r == TagGetByID(db, id)
        IN /\ Reply(r, Response("TagGet", id, <<>>, r,
                        HandlerStatus(r.err, {ErrNotFound}, 0, StatusOK)))
           /\ UNCHANGED nextId

TagUpdateHandler ==
    \E id \in TagIdInputs, req \in TagUpdateReqs :
        LET r == TagUpdate(db, id, req)
        IN /\ Reply(r, Response("TagUpdate", id, req, r,
                        HandlerStatus(r.err, {ErrNotFound, ErrDuplicate}, 0, StatusOK)))
           /\ UNCHANGED nextId

TagDeleteHandler ==
    \E id \in TagIdInputs :
        LET r == TagDelete(db, id)
        IN /\ Reply(r, Response("TagDelete", id, <<>>, r,
                        HandlerStatus(r.err, {ErrNotFound}, 0, StatusNoContent)))
           /\ UNCHANGED nextId

ContentTypeCreateHandler ==
    \E req \in ContentTypeCreateReqs :
        /\ nextId < MaxId
        /\ IF NameSlugInvalid(req) # {}
           THEN Reject(Invalid("ContentTypeCreate", req, NameSlugInvalid(req)))
           ELSE LET r == ContentTypeCreate(db, NewUUID(nextId + 1), req)
                IN /\ Reply(r, Response("ContentTypeCreate", NewUUID(nextId + 1), req, r,
                                HandlerStatus(r.err, {ErrDuplicate}, 0, StatusCreated)))
                   /\ Created(r)

ContentTypeGetHandler ==
    \E id \in ContentTypeIdInputs :
        LET r == ContentTypeGetByID(db, id)
        IN /\ Reply(r, Response("ContentTypeGet", id, <<>>, r,
                        HandlerStatus(r.err, {ErrNotFound}, 0, StatusOK)))
           /\ UNCHANGED nextId

ContentTypeUpdateHandler ==
    \E id \in ContentTypeIdInputs, req \in ContentTypeUpdateReqs :
        LET r == ContentTypeUpdate(db, id, req)
        IN /\ Reply(r, Response("ContentTypeUpdate", id, req, r,
                        HandlerStatus(r.err, {ErrNotFound, ErrDuplicate}, 0, StatusOK)))
           /\ UNCHANGED nextId

ContentTypeDeleteHandler ==
    \E id \in ContentTypeIdInputs :
        LET r == ContentTypeDelete(db, id)
        IN /\ Reply(r, Response("ContentTypeDelete", id, <<>>, r,
                        HandlerStatus(r.err, {ErrNotFound, ErrForeignKey},
                                      StatusConflict, StatusNoContent)))
           /\ UNCHANGED nextId

\* MediaHandler.Create: the required fields that are missing
MediaInvalid(req) ==
    {f \in {"file_name", "object_key", "bucket_name", "mime_type"} : req[f] = ""}
        \cup {f \in {"file_size"} : req[f] <= 0}
        \cup {f \in {"file_type"} : req[f] < 1 \/ req[f] > 3}

MediaCreateHandler ==
    \E req \in MediaCreateReqs :
        /\ nextId < MaxId
        /\ IF MediaInvalid(req) # {}
           THEN Reject(Invalid("MediaCreate", req, MediaInvalid(req)))
           ELSE LET r == MediaCreate(db, NewUUID(nextId + 1), req)
                IN /\ Reply(r, Response("MediaCreate", NewUUID(nextId + 1), req, r,
                                HandlerStatus(r.err, {ErrDuplicate}, 0, StatusCreated)))
                   /\ Created(r)

MediaGetHandler ==
    \E id \in MediaIdInputs :
        LET r == MediaGetByID(db, id)
        IN /\ Reply(r, Response("MediaGet", id, <<>>, r,
                        HandlerStatus(r.err, {ErrNotFound}, 0, StatusOK)))
           /\ UNCHANGED nextId

MediaUpdateHandler ==
    \E id \in MediaIdInputs, req \in MediaUpdateReqs :
        LET r == MediaUpdate(db, id, req)
        IN /\ Reply(r, Response("MediaUpdate", id, req, r,
                        HandlerStatus(r.err, {ErrNotFound}, 0, StatusOK)))
           /\ UNCHANGED nextId

MediaDeleteHandler ==
    \E id \in MediaIdInputs :
        LET r == MediaDelete(db, id)
        IN /\ Reply(r, Response("MediaDelete", id, <<>>, r,
                        HandlerStatus(r.err, {ErrNotFound, ErrForeignKey},
                                      StatusConflict, StatusNoContent)))
           /\ UNCHANGED nextId

SettingInvalid(req) == IF req.key = "" THEN {"key"} ELSE {}

SettingCreateHandler ==
    \E req \in SettingCreateReqs :
        /\ nextId < MaxId
        /\ IF SettingInvalid(req) # {}
           THEN Reject(Invalid("SettingCreate", req, SettingInvalid(req)))
           ELSE LET r == SettingCreate(db, NewUUID(nextId + 1), req)
                IN /\ Reply(r, Response("SettingCreate", NewUUID(nextId + 1), req, r,
                                HandlerStatus(r.err, {ErrDuplicate}, 0, StatusCreated)))
                   /\ Created(r)

SettingGetHandler ==
    \E key \in SettingKeyInputs :
        LET r == SettingGetByKey(db, key)
        IN /\ Reply(r, Response("SettingGet", key, <<>>, r,
                        HandlerStatus(r.err, {ErrNotFound}, 0, StatusOK)))
           /\ UNCHANGED nextId

SettingUpdateHandler ==
    \E key \in SettingKeyInputs, req \in SettingUpdateReqs :
        LET r == SettingUpdate(db, key, req)
        IN /\ Reply(r, Response("SettingUpdate", key, req, r,
                        HandlerStatus(r.err, {ErrNotFound}, 0, StatusOK)))
           /\ UNCHANGED nextId

\* the row an upsert stores is new when the key is not stored
SettingUpsertHandler ==
    \E req \in SettingCreateReqs :
        /\ (\E x \in db.settings : x.key = req.key) \/ nextId < MaxId
        /\ IF SettingInvalid(req) # {}
           THEN Reject(Invalid("SettingUpsert", req, SettingInvalid(req)))
           ELSE LET r == SettingUpsert(db, NewUUID(nextId + 1), req)
                IN /\ Reply(r, Response("SettingUpsert", r.data.id, req, r,
                                HandlerStatus(r.err, {}, 0, StatusOK)))
                   /\ nextId' = IF r.data.id = NewUUID(nextId + 1)
                                THEN nextId + 1 ELSE nextId

SettingDeleteHandler ==
    \E key \in SettingKeyInputs :
        LET r == SettingDelete(db, key)
        IN /\ Reply(r, Response("SettingDelete", key, <<>>, r,
                        HandlerStatus(r.err, {ErrNotFound}, 0, StatusNoContent)))
           /\ UNCHANGED nextId

\* response.BadRequest: the repository is not called
BadRequest(op, req) ==
    [op |-> op, id |-> NilUUID, req |-> req, err |-> NoErr,
     status |-> StatusBadRequest, data |-> NoData, details |-> {}]

SettingGetMultipleHandler ==
    \E keys \in SettingKeyLists :
        IF Len(keys) = 0
        THEN Reject(BadRequest("SettingGetMultiple", [keys |-> keys]))
        ELSE LET r == SettingGetMultiple(db, keys)
             IN /\ Reply(r, Response("SettingGetMultiple", NilUUID, [keys |-> keys], r,
                             HandlerStatus(r.err, {}, 0, StatusOK)))
                /\ UNCHANGED nextId

ContactInvalid(req) == {f \in {"name", "email", "message"} : req[f] = ""}

\* ContactHandler.Create, "Capture client info": the first of the
\* X-Forwarded-For header, the X-Real-IP header and RemoteAddr that is not
\* empty, and the User-Agent header, replace what the body decoded to
ClientIP(req) ==
    IF req.x_forwarded_for # "" THEN req.x_forwarded_for
    ELSE IF req.x_real_ip # "" THEN req.x_real_ip
    ELSE req.remote_addr

CaptureClientInfo(req) ==
    [req EXCEPT !.ip_address = <<ClientIP(req)>>,
                !.user_agent = <<req.header_user_agent>>]

\* faulty variant of ContactCreateHandler (sensitivity of C24): the row is
\* inserted before the required fields are looked at
ContactCreateValidatesLate ==
    \E req \in ContactCreateReqs :
        /\ nextId < MaxId
        /\ LET r == ContactCreate(db, NewUUID(nextId + 1),
                                  CaptureClientInfo(req))
           IN IF ContactInvalid(req) # {}
              THEN /\ Reply(r, Invalid("ContactCreate", req, ContactInvalid(req)))
                   /\ Created(r)
              ELSE /\ Reply(r, Response("ContactCreate", NewUUID(nextId + 1), req, r,
                                 HandlerStatus(r.err, {}, 0, StatusCreated)))
                   /\ Created(r)

ContactCreateHandler ==
    \E req \in ContactCreateReqs :
        /\ nextId < MaxId
        /\ IF ContactInvalid(req) # {}
           THEN Reject(Invalid("ContactCreate", req, ContactInvalid(req)))
           ELSE LET r == ContactCreate(db, NewUUID(nextId + 1),
                                      CaptureClientInfo(req))
                IN /\ Reply(r, Response("ContactCreate", NewUUID(nextId + 1), req, r,
                                HandlerStatus(r.err, {}, 0, StatusCreated)))
                   /\ Created(r)

ContactGetHandler ==
    \E id \in ContactIdInputs :
        LET r == ContactGetByID(db, id)
        IN /\ Reply(r, Response("ContactGet", id, <<>>, r,
                        HandlerStatus(r.err, {ErrNotFound}, 0, StatusOK)))
           /\ UNCHANGED nextId

\* the repository reads time.Now() when the status given is "read"
ContactUpdateHandler ==
    \E id \in ContactIdInputs, req \in ContactUpdateReqs :
        /\ ContactStampsReadAt(req) => clock < MaxClock
        /\ LET r == ContactUpdate(db, id, req, clock + 1)
           IN /\ db' = r.db
              /\ resp' = Response("ContactUpdate", id, req, r,
                            HandlerStatus(r.err, {ErrNotFound}, 0, StatusOK))
              /\ clock' = IF ContactStampsReadAt(req) THEN clock + 1 ELSE clock
              /\ UNCHANGED <<workload, nextId, tasks, lookup>>

ContactDeleteHandler ==
    \E id \in ContactIdInputs :
        LET r == ContactDelete(db, id)
        IN /\ Reply(r, Response("ContactDelete", id, <<>>, r,
                        HandlerStatus(r.err, {ErrNotFound}, 0, StatusNoContent)))
           /\ UNCHANGED nextId

\* faulty variant of PostInvalid (sensitivity of C23): the validation stops
\* at the first field it finds missing
PostInvalidFirstOnly(req) ==
    IF req.title = "" THEN {"title"}
    ELSE IF req.slug = "" THEN {"slug"}
    ELSE IF req.content_type_id = NilUUID THEN {"content_type_id"}
    ELSE IF req.author_id = NilUUID THEN {"author_id"}
    ELSE {}

\* ContentPostHandler.Create: the required fields that are missing
PostInvalid(req) ==
    {f \in {"title", "slug"} : req[f] = ""}
        \cup {f \in {"content_type_id", "author_id"} : req[f] = NilUUID}

PostCreateHandler ==
    \E req \in PostCreateReqs :
        /\ nextId < MaxId
        /\ IF PostInvalid(req) # {}
           THEN Reject(Invalid("PostCreate", req, PostInvalid(req)))
           ELSE LET r == PostCreate(db, NewUUID(nextId + 1), req)
                IN /\ Reply(r, Response("PostCreate", NewUUID(nextId + 1), req, r,
                                HandlerStatus(r.err, {ErrDuplicate, ErrForeignKey},
                                              StatusBadRequest, StatusCreated)))
                   /\ Created(r)

PostGetHandler ==
    \E id \in PostIdInputs :
        LET r == PostGetByID(db, id)
        IN /\ Reply(r, Response("PostGet", id, <<>>, r,
                        HandlerStatus(r.err, {ErrNotFound}, 0, StatusOK)))
           /\ UNCHANGED nextId

PostUpdateHandler ==
    \E id \in PostIdInputs, req \in PostUpdateReqs :
        LET r == PostUpdate(db, id, req)
        IN /\ Reply(r, Response("PostUpdate", id, req, r,
                        HandlerStatus(r.err, {ErrNotFound, ErrDuplicate, ErrForeignKey},
                                      StatusBadRequest, StatusOK)))
           /\ UNCHANGED nextId

PostDeleteHandler ==
    \E id \in PostIdInputs :
        LET r == PostDelete(db, id)
        IN /\ Reply(r, Response("PostDelete", id, <<>>, r,
                        HandlerStatus(r.err, {ErrNotFound}, 0, StatusNoContent)))
           /\ UNCHANGED nextId

PostAttachMediaHandler ==
    \E postID \in PostIdInputs, req \in AttachMediaReqs :
        /\ nextId < MaxId
        /\ IF req.media_id = NilUUID
           THEN Reject(Invalid("PostAttachMedia", req, {"media_id"}))
           ELSE LET r == PostAttachMedia(db, NewUUID(nextId + 1), postID, req)
                IN /\ Reply(r, Response("PostAttachMedia", postID, req, r,
                                HandlerStatus(r.err, {ErrDuplicate, ErrForeignKey},
                                              StatusBadRequest, StatusCreated)))
                   /\ Created(r)

PostDetachMediaHandler ==
    \E postID \in PostIdInputs, mediaID \in MediaIdInputs :
        LET r == PostDetachMedia(db, postID, mediaID)
        IN /\ Reply(r, Response("PostDetachMedia", postID, [media_id |-> mediaID], r,
                        HandlerStatus(r.err, {ErrNotFound}, 0, StatusNoContent)))
           /\ UNCHANGED nextId

\* the answer of a handler that waits for the increment and reports it
GetBySlugResponseAfterIncrement(d, slug) ==
    LET found == PostGetBySlug(d, slug)
        r == IF found.err # NoErr THEN found
             ELSE PostGetBySlug(BumpViewCount(d, found.data.post.id).db, slug)
    IN Response("PostGetBySlug",
                IF r.err = NoErr THEN r.data.post.id ELSE NilUUID,
                [slug |-> slug], r,
                HandlerStatus(r.err, {ErrNotFound}, 0, StatusOK))

\* the answer of a read by slug: the handler starts the goroutine and does
\* not wait for it
GetBySlugResponse(d, slug) ==
    LET r == PostGetBySlug(d, slug)
    IN Response("PostGetBySlug",
                IF r.err = NoErr THEN r.data.post.id ELSE NilUUID,
                [slug |-> slug], r,
                HandlerStatus(r.err, {ErrNotFound}, 0, StatusOK))

\* go func() { _ = h.repo.IncrementViewCount(r.Context(), post.ID) }()
Go(post) == [post |-> post, state |-> "started"]

PostGetBySlugHandler ==
    \E slug \in PostSlugInputs :
        /\ workload = "post_views"
        /\ Len(tasks) < MaxViews
        /\ resp' = GetBySlugResponse(db, slug)
        /\ tasks' = IF resp'.err = NoErr THEN Append(tasks, Go(resp'.id))
                    ELSE tasks
        /\ UNCHANGED <<workload, db, nextId, clock, lookup>>

\* the goroutine of ContentPostHandler.GetBySlug.  It runs with the context
\* of the request, which the server cancels when the handler has returned:
\* the statement is run when the goroutine gets there first, and is refused
\* with the error of the context otherwise.  The error is dropped, and no
\* response is written.
IncrementViewCount ==
    \E i \in DOMAIN tasks, ctxDone \in BOOLEAN :
        /\ tasks[i].state = "started"
        /\ LET r == PostIncrementViewCount(db, tasks[i].post, ctxDone)
           IN /\ db' = r.db
              /\ tasks' = [tasks EXCEPT ![i].state =
                              IF r.err = NoErr THEN "incremented" ELSE "failed"]
              /\ resp' = [op |-> "IncrementViewCount", id |-> tasks[i].post,
                          req |-> <<>>, err |-> NoErr, status |-> 0,
                          data |-> NoData, details |-> {}]
              /\ lookup' = Observe(r.db)
        /\ UNCHANGED <<workload, nextId, clock>>

\* the handlers that read an identifier from the path with parseUUID
ParsesUUID ==
    {"TagGet", "TagUpdate", "TagDelete",
     "ContentTypeGet", "ContentTypeUpdate", "ContentTypeDelete",
     "MediaGet", "MediaUpdate", "MediaDelete",
     "ContactGet", "ContactUpdate", "ContactDelete",
     "PostGet", "PostUpdate", "PostDelete", "PostAttachMedia", "PostDetachMedia"}

\* the handlers that read the body with decodeJSON
DecodesJSON ==
    {"TagCreate", "TagUpdate", "ContentTypeCreate", "ContentTypeUpdate",
     "MediaCreate", "MediaUpdate", "ContactCreate", "ContactUpdate",
     "SettingCreate", "SettingUpdate", "SettingUpsert", "SettingGetMultiple",
     "PostCreate", "PostUpdate", "PostAttachMedia"}

\* the handlers of the endpoints a workload exercises
HandlersOf(w) ==
    CASE w = "tags" -> {"TagCreate", "TagGet", "TagUpdate", "TagDelete"}
      [] w = "content_types" -> {"ContentTypeCreate", "ContentTypeGet",
                                 "ContentTypeUpdate", "ContentTypeDelete"}
      [] w = "media" -> {"MediaCreate", "MediaGet", "MediaUpdate", "MediaDelete"}
      [] w = "contacts" -> {"ContactCreate", "ContactGet", "ContactUpdate",
                            "ContactDelete"}
      [] w = "settings" -> {"SettingCreate", "SettingUpdate", "SettingUpsert",
                            "SettingGetMultiple"}
      [] w = "posts" -> {"PostCreate", "PostGet", "PostUpdate", "PostDelete"}
      [] w = "post_media" -> {"PostAttachMedia", "PostDetachMedia"}
      [] w = "contact_list" -> {"ContactCreate", "ContactDelete"}
      [] w = "post_list" -> {"PostCreate", "PostDelete"}
      [] OTHER -> {}

\* what a client can send that a handler refuses before it calls its
\* repository: a path identifier uuid.Parse fails on, a body Decode fails on
Malformed(op) ==
    {[id |-> "not-a-uuid"] : x \in {op} \cap ParsesUUID}
        \cup {[body |-> "{"] : x \in {op} \cap DecodesJSON}

\* every handler on a malformed identifier or body: response.BadRequest and
\* return
BadRequestHandler ==
    \E op \in HandlersOf(workload) :
        \E req \in Malformed(op) :
            Reject(BadRequest(op, req))

Next ==
    \/ BadRequestHandler
    \/ TagCreateHandler
    \/ TagGetHandler
    \/ TagUpdateHandler
    \/ TagDeleteHandler
    \/ ContentTypeCreateHandler
    \/ ContentTypeGetHandler
    \/ ContentTypeUpdateHandler
    \/ ContentTypeDeleteHandler
    \/ MediaCreateHandler
    \/ MediaGetHandler
    \/ MediaUpdateHandler
    \/ MediaDeleteHandler
    \/ SettingCreateHandler
    \/ SettingGetHandler
    \/ SettingUpdateHandler
    \/ SettingUpsertHandler
    \/ SettingDeleteHandler
    \/ SettingGetMultipleHandler
    \/ ContactCreateHandler
    \/ ContactGetHandler
    \/ ContactUpdateHandler
    \/ ContactDeleteHandler
    \/ PostCreateHandler
    \/ PostGetHandler
    \/ PostUpdateHandler
    \/ PostDeleteHandler
    \/ PostAttachMediaHandler
    \/ PostDetachMediaHandler
    \/ PostGetBySlugHandler
    \/ IncrementViewCount

Spec == Init /\ [][Next]_vars

(* The reads by slug and their goroutines alone: the scheduler runs every  *)
(* goroutine that was started.                                             *)
InitViews ==
    /\ workload = "post_views"
    /\ db = SeedDB(workload)
    /\ nextId = 0
    /\ clock = 0
    /\ resp = [op |-> "none", id |-> NilUUID, req |-> <<>>, err |-> NoErr,
               status |-> 0, data |-> NoData, details |-> {}]
    /\ tasks = <<>>
    /\ lookup = Idle

NextViews ==
    \/ PostCreateHandler
    \/ PostGetHandler
    \/ PostDeleteHandler
    \/ PostGetBySlugHandler
    \/ IncrementViewCount

SpecViews == InitViews /\ [][NextViews]_vars /\ WF_vars(IncrementViewCount)

-----------------------------------------------------------------------------
(* The read of a post by its slug, query by query.                          *)
(* ContentPostRepository.GetBySlug selects the identifier of the slug and   *)
(* calls GetByID, which selects the post with its content type and author,  *)
(* then its tags, then its media.  Each query is sent to the pool on its    *)
(* own, outside any transaction, so the requests of other clients run       *)
(* between them.                                                            *)

\* the answer of the handler to a failed read by slug
GetBySlugFailed(slug, err) ==
    Response("PostGetBySlug", NilUUID, [slug |-> slug],
             Result(db, err, NoData), HandlerStatus(err, {ErrNotFound}, 0, StatusOK))

\* SELECT id FROM content_posts WHERE slug = $1
GetBySlugSelectID ==
    \E slug \in PostSlugInputs :
        /\ workload = "post_lookup"
        /\ lookup = Idle
        /\ Len(tasks) < MaxViews
        /\ IF \E p \in db.content_posts : p.slug = slug
           THEN /\ lookup' = [pc |-> "id", slug |-> slug,
                              id |-> (CHOOSE p \in db.content_posts :
                                          p.slug = slug).id,
                              post |-> <<>>, content_type |-> <<>>,
                              author |-> <<>>, tags |-> {},
                              snaps |-> {PostGetBySlug(db, slug).data}]
                /\ UNCHANGED resp
           ELSE /\ resp' = GetBySlugFailed(slug, ErrNotFound)
                /\ UNCHANGED lookup
        /\ UNCHANGED <<workload, db, nextId, clock, tasks>>

\* GetByID: SELECT ... FROM content_posts cp JOIN content_types ct ...
\* JOIN users u ... WHERE cp.id = $1
GetBySlugSelectPost ==
    /\ lookup.pc = "id"
    /\ IF lookup.id \in Ids(db.content_posts)
       THEN LET p == Row(db.content_posts, lookup.id)
            IN /\ lookup' = [lookup EXCEPT
                                !.pc = "post",
                                !.post = p,
                                !.content_type = Row(db.content_types,
                                                     p.content_type_id),
                                !.author = Row(db.users, p.author_id)]
               /\ UNCHANGED resp
       ELSE /\ resp' = GetBySlugFailed(lookup.slug, ErrNotFound)
            /\ lookup' = Idle
    /\ UNCHANGED <<workload, db, nextId, clock, tasks>>

\* GetByID: r.getPostTags(ctx, post.ID)
GetBySlugSelectTags ==
    /\ lookup.pc = "post"
    /\ lookup' = [lookup EXCEPT !.pc = "tags",
                                !.tags = getPostTags(db, lookup.id)]
    /\ UNCHANGED <<workload, db, nextId, clock, resp, tasks>>

\* GetByID: r.getPostMedia(ctx, post.ID); the handler then starts the
\* goroutine of the view count and answers with the post
GetBySlugSelectMedia ==
    /\ lookup.pc = "tags"
    /\ resp' = Response("PostGetBySlug", lookup.id, [slug |-> lookup.slug],
                        Result(db, NoErr,
                               [post |-> lookup.post,
                                content_type |-> lookup.content_type,
                                author |-> lookup.author,
                                tags |-> lookup.tags,
                                media |-> getPostMedia(db, lookup.id)]),
                        StatusOK)
    /\ tasks' = Append(tasks, Go(lookup.id))
    /\ lookup' = Idle
    /\ UNCHANGED <<workload, db, nextId, clock>>

InitLookup ==
    /\ workload = "post_lookup"
    /\ db = SeedDB(workload)
    /\ nextId = 0
    /\ clock = 0
    /\ resp = [op |-> "none", id |-> NilUUID, req |-> <<>>, err |-> NoErr,
               status |-> 0, data |-> NoData, details |-> {}]
    /\ tasks = <<>>
    /\ lookup = Idle

NextLookup ==
    \/ GetBySlugSelectID
    \/ GetBySlugSelectPost
    \/ GetBySlugSelectTags
    \/ GetBySlugSelectMedia
    \/ IncrementViewCount
    \/ PostCreateHandler
    \/ PostUpdateHandler
    \/ PostDeleteHandler

SpecLookup == InitLookup /\ [][NextLookup]_vars

-----------------------------------------------------------------------------
(* Pagination.  Go's int is 64 bits wide on the platforms the server is     *)
(* built for; an int is the sequence of its four 16-bit limbs, least        *)
(* significant first, in two's complement, so that arithmetic wraps modulo  *)
(* 2^64 as the compiled code does.                                          *)

LimbBase == 256 * 256

HalfLimb == LimbBase \div 2

\* the int of a number small enough to fit one limb
I64(n) ==
    IF n >= 0 THEN <<n, 0, 0, 0>>
    ELSE <<LimbBase + n, LimbBase - 1, LimbBase - 1, LimbBase - 1>>

MaxInt64 == <<LimbBase - 1, LimbBase - 1, LimbBase - 1, HalfLimb - 1>>

MinInt64 == <<0, 0, 0, HalfLimb>>

IsNeg(x) == x[4] >= HalfLimb

\* x < 1
LessThanOne(x) == IsNeg(x) \/ x = I64(0)

\* x > 100
GreaterThan100(x) ==
    /\ ~IsNeg(x)
    /\ (x[2] # 0 \/ x[3] # 0 \/ x[4] # 0 \/ x[1] > 100)

\* the number an int between 0 and LimbBase - 1 stands for
Small(x) == x[1]

\* x * k + c on 64 bits without sign, k and c below LimbBase: the limbs of
\* the result and the carry out of the top limb
MulAdd(x, k, c) ==
    LET p1 == x[1] * k + c
        p2 == x[2] * k + (p1 \div LimbBase)
        p3 == x[3] * k + (p2 \div LimbBase)
        p4 == x[4] * k + (p3 \div LimbBase)
    IN [limbs |-> <<p1 % LimbBase, p2 % LimbBase, p3 % LimbBase, p4 % LimbBase>>,
        carry |-> p4 \div LimbBase]

\* x - 1 for x >= 1
Dec(x) ==
    IF x[1] > 0 THEN <<x[1] - 1, x[2], x[3], x[4]>>
    ELSE IF x[2] > 0 THEN <<LimbBase - 1, x[2] - 1, x[3], x[4]>>
    ELSE IF x[3] > 0 THEN <<LimbBase - 1, LimbBase - 1, x[3] - 1, x[4]>>
    ELSE <<LimbBase - 1, LimbBase - 1, LimbBase - 1, x[4] - 1>>

\* -x for the limbs of a magnitude between 1 and 2^63
Neg(x) ==
    LET d == Dec(x)
    IN <<LimbBase - 1 - d[1], LimbBase - 1 - d[2],
         LimbBase - 1 - d[3], LimbBase - 1 - d[4]>>

\* x * k on 64 bits, wrapping, for 0 <= k < LimbBase
Mul(x, k) == MulAdd(x, k, 0).limbs

\* a query parameter holding a number is the sequence of its characters
Digits == <<"0", "1", "2", "3", "4", "5", "6", "7", "8", "9">>

IsDigit(c) == \E i \in 1..10 : Digits[i] = c

DigitValue(c) == (CHOOSE i \in 1..10 : Digits[i] = c) - 1

AtoiError == [ok |-> FALSE, val |-> I64(0)]

RECURSIVE ParseUint(_, _)
ParseUint(s, acc) ==
    IF s = <<>> THEN [ok |-> TRUE, val |-> acc]
    ELSE IF ~IsDigit(Head(s)) THEN AtoiError
    ELSE LET m == MulAdd(acc, 10, DigitValue(Head(s)))
         IN IF m.carry # 0 THEN AtoiError ELSE ParseUint(Tail(s), m.limbs)

\* strconv.Atoi on a non-empty string: an optional sign and decimal digits,
\* an error when the text is not a number or is out of the range of int
Atoi(s) ==
    LET signed == Head(s) \in {"-", "+"}
        digits == IF signed THEN Tail(s) ELSE s
        u == ParseUint(digits, I64(0))
    IN IF digits = <<>> \/ ~u.ok THEN AtoiError
       ELSE IF Head(s) = "-"
       THEN IF u.val = I64(0) THEN u
            ELSE IF IsNeg(u.val) /\ u.val # MinInt64 THEN AtoiError
            ELSE [ok |-> TRUE, val |-> Neg(u.val)]
       ELSE IF IsNeg(u.val) THEN AtoiError ELSE u

DefaultPagination ==
    [page |-> I64(1), page_size |-> I64(20), sort_by |-> "created_at",
     sort_dir |-> "desc"]

Offset(p) == Mul(Dec(p.page), Small(p.page_size))

Limit(p) == p.page_size

Normalize(p) ==
    LET p1 == IF LessThanOne(p.page) THEN [p EXCEPT !.page = I64(1)] ELSE p
        p2 == IF LessThanOne(p1.page_size)
              THEN [p1 EXCEPT !.page_size = I64(20)] ELSE p1
        p3 == IF GreaterThan100(p2.page_size)
              THEN [p2 EXCEPT !.page_size = I64(100)] ELSE p2
    IN IF p3.sort_dir # "asc" /\ p3.sort_dir # "desc"
       THEN [p3 EXCEPT !.sort_dir = "desc"] ELSE p3

\* models.NewPaginatedResult: the number of pages of total rows
NewPaginatedResult(total, params) ==
    LET totalPages == total \div Small(params.page_size)
    IN [total |-> total, page |-> params.page, page_size |-> params.page_size,
        total_pages |-> IF total % Small(params.page_size) > 0
                        THEN totalPages + 1 ELSE totalPages]

\* handlers.parsePaginationParams on the query q: the parameters before
\* Normalize
RawParams(q) ==
    LET d == DefaultPagination
        p1 == IF q.page # <<>> /\ Atoi(q.page).ok
              THEN [d EXCEPT !.page = Atoi(q.page).val] ELSE d
        p2 == IF q.page_size # <<>> /\ Atoi(q.page_size).ok
              THEN [p1 EXCEPT !.page_size = Atoi(q.page_size).val] ELSE p1
        p3 == IF q.sort_by # "" THEN [p2 EXCEPT !.sort_by = q.sort_by] ELSE p2
    IN IF q.sort_dir # "" THEN [p3 EXCEPT !.sort_dir = q.sort_dir] ELSE p3

parsePaginationParams(q) == Normalize(RawParams(q))

\* the tables that have a list endpoint
ListEntities ==
    {"content_types", "content_posts", "media", "tags", "contact_submissions",
     "settings"}

\* table.sql: the columns of a table
Columns(entity) ==
    CASE entity = "content_types" ->
           {"id", "name", "slug", "schema_fields", "is_active",
            "display_order", "created_at", "updated_at"}
      [] entity = "content_posts" ->
           {"id", "content_type_id", "author_id", "title", "slug", "excerpt",
            "content", "metadata", "status", "published_at", "view_count",
            "created_at", "updated_at"}
      [] entity = "media" ->
           {"id", "file_name", "object_key", "bucket_name", "cdn_url",
            "file_type", "mime_type", "file_size", "dimensions", "variants",
            "alt_text", "checksum", "created_at"}
      [] entity = "tags" -> {"id", "name", "slug", "created_at"}
      [] entity = "contact_submissions" ->
           {"id", "name", "email", "phone", "subject", "message", "status",
            "ip_address", "user_agent", "metadata", "read_at", "created_at"}
      [] entity = "settings" ->
           {"id", "key", "value", "description", "updated_at"}

\* ORDER BY <SortBy> <SortDir>: PostgreSQL rejects the query when SortBy
\* names no column of the table
OrderByRejected(entity, f) ==
    f.sort_by # "" /\ f.sort_by \notin Columns(entity)

\* the List method of the repository of entity on a store holding total
\* matching rows: it normalizes its copy of the filter and runs the count
\* and the page query; PostgreSQL rejects a negative OFFSET
RepositoryList(entity, filter, total) ==
    LET f == Normalize(filter)
    IN IF OrderByRejected(entity, f) \/ IsNeg(Offset(f))
       THEN [err |-> StorageFailure, total |-> 0, limit |-> Limit(f),
             offset |-> Offset(f)]
       ELSE [err |-> NoErr, total |-> total, limit |-> Limit(f),
             offset |-> Offset(f)]

\* response.Meta as the List handlers fill it
ListMeta(filter, total) ==
    [page |-> filter.page, page_size |-> filter.page_size, total |-> total,
     total_pages |-> total \div Small(filter.page_size) + 1]

-----------------------------------------------------------------------------
(* The list endpoints: a query string is parsed, then the handler lists a   *)
(* table holding some number of matching rows.                              *)

\* largest page number written in a query with one digit
MaxPage == 3
\* largest number of rows matching a list request
MaxTotal == 41

PageStrings ==
    {<<>>, <<"x">>, <<"-", "1">>,
     <<"9", "2", "2", "3", "3", "7", "2", "0", "3", "6", "8", "5", "4", "7",
       "7", "6", "0">>,
     <<"9", "2", "2", "3", "3", "7", "2", "0", "3", "6", "8", "5", "4", "7",
       "7", "5", "8", "0", "7">>,
     <<"9", "2", "2", "3", "3", "7", "2", "0", "3", "6", "8", "5", "4", "7",
       "7", "5", "8", "0", "8">>}
        \cup {<<Digits[n + 1]>> : n \in 0..MaxPage}

PageSizeStrings ==
    {<<>>, <<"x">>, <<"-", "1">>, <<"0">>, <<"1">>, <<"2">>, <<"2", "0">>,
     <<"1", "0", "0">>, <<"1", "0", "1">>,
     <<"-", "9", "2", "2", "3", "3", "7", "2", "0", "3", "6", "8", "5", "4",
       "7", "7", "5", "8", "0", "8">>}

Queries ==
    [page : PageStrings, page_size : PageSizeStrings,
     sort_by : {"", "name"}, sort_dir : {"", "asc", "desc", "up"}]

InitPage ==
    /\ workload = "lists"
    /\ db = EmptyDB
    /\ nextId = 0
    /\ clock = 0
    /\ resp = [op |-> "none", id |-> NilUUID, req |-> <<>>, err |-> NoErr,
               status |-> 0, data |-> NoData, details |-> {}]
    /\ tasks = <<>>
    /\ lookup = Idle

\* the first statement of a List handler
ParsePagination ==
    \E q \in Queries :
        /\ resp.op = "none"
        /\ resp' = [op |-> "parsePaginationParams", id |-> NilUUID, req |-> q,
                    err |-> NoErr, status |-> 0,
                    data |-> [raw |-> RawParams(q),
                              filter |-> parsePaginationParams(q)],
                    details |-> {}]
        /\ UNCHANGED <<workload, db, nextId, clock, tasks, lookup>>

\* the rest of a List handler
ListHandler ==
    \E entity \in ListEntities, total \in 0..MaxTotal :
        /\ resp.op = "parsePaginationParams"
        /\ LET filter == resp.data.filter
               r == RepositoryList(entity, filter, total)
           IN resp' = [resp EXCEPT
                         !.op = "List",
                         !.err = r.err,
                         !.status = HandlerStatus(r.err, {}, 0, StatusOK),
                         !.data = [raw |-> resp.data.raw, filter |-> filter,
                                   entity |-> entity,
                                   limit |-> r.limit, offset |-> r.offset,
                                   meta |-> IF r.err = NoErr
                                            THEN ListMeta(filter, r.total)
                                            ELSE <<>>]]
        /\ UNCHANGED <<workload, db, nextId, clock, tasks, lookup>>

\* models.NewPaginatedResult applied to the parsed parameters and a total
NewPaginatedResultCall ==
    \E total \in 0..MaxTotal :
        /\ resp.op = "parsePaginationParams"
        /\ resp' = [resp EXCEPT
                      !.op = "NewPaginatedResult",
                      !.data = [raw |-> resp.data.raw,
                                filter |-> resp.data.filter,
                                result |-> NewPaginatedResult(total,
                                                              resp.data.filter)]]
        /\ UNCHANGED <<workload, db, nextId, clock, tasks, lookup>>

NextPage ==
    \/ ParsePagination
    \/ ListHandler
    \/ NewPaginatedResultCall

SpecPage == InitPage /\ [][NextPage]_vars

(***************************************************************************)
(* Lists of contacts and posts: ContactRepository.List and                 *)
(* ContentPostRepository.List over the stored rows, behind their handlers. *)
(***************************************************************************)

\* the lower case of a character
Lower(c) ==
    CASE c = "A" -> "a"
      [] c = "T" -> "t"
      [] OTHER -> c

\* text LIKE pattern, case-insensitively: % stands for any run of
\* characters and _ for any one character
RECURSIVE Like(_, _)
Like(text, pattern) ==
    IF pattern = <<>> THEN text = <<>>
    ELSE IF Head(pattern) = "%"
    THEN Like(text, Tail(pattern))
         \/ (text # <<>> /\ Like(Tail(text), pattern))
    ELSE /\ text # <<>>
         /\ (Head(pattern) = "_" \/ Lower(Head(pattern)) = Lower(Head(text)))
         /\ Like(Tail(text), Tail(pattern))

\* column ILIKE '%' + search + '%'
ILike(column, search) == Like(Chars(column), <<"%">> \o Chars(search) \o <<"%">>)

\* the conversion of an int to an int16 (ContactStatus, PostStatus): its
\* low sixteen bits, in two's complement
Int16(x) == IF x[1] < HalfLimb THEN x[1] ELSE x[1] - LimbBase

\* the status filter of a list request: absent when the parameter is
\* missing or is not a number
StatusFilter(text) ==
    IF text # <<>> /\ Atoi(text).ok THEN <<Int16(Atoi(text).val)>> ELSE <<>>

\* created_at defaults to the time of the INSERT: rows are ordered by
\* creation as their identifiers are
RECURSIVE OldestFirst(_)
OldestFirst(rows) ==
    IF rows = {} THEN <<>>
    ELSE LET first == CHOOSE x \in rows : \A y \in rows : x.id <= y.id
         IN <<first>> \o OldestFirst(rows \ {first})

Reverse(s) == [i \in 1..Len(s) |-> s[Len(s) + 1 - i]]

\* ORDER BY created_at in the direction of the filter
OrderByCreatedAt(rows, f) ==
    IF f.sort_dir = "asc" THEN OldestFirst(rows) ELSE Reverse(OldestFirst(rows))

\* LIMIT limit OFFSET offset over the ordered rows
LimitOffset(ordered, limit, offset) ==
    IF offset[2] # 0 \/ offset[3] # 0 \/ offset[4] # 0 \/ Small(offset) >= Len(ordered)
    THEN <<>>
    ELSE LET last == IF Small(offset) + Small(limit) < Len(ordered)
                     THEN Small(offset) + Small(limit) ELSE Len(ordered)
         IN SubSeq(ordered, Small(offset) + 1, last)

ContactWhere(c, filter) ==
    /\ IsNil(filter.status) \/ c.status = Deref(filter.status)
    /\ filter.email = "" \/ ILike(c.email, filter.email)

ContactList(d, filter) ==
    LET f == Normalize(filter)
        rows == {c \in d.contact_submissions : ContactWhere(c, f)}
        r == RepositoryList("contact_submissions", f, Cardinality(rows))
    IN IF r.err # NoErr
       THEN [err |-> r.err, total |-> 0, rows |-> <<>>]
       ELSE [err |-> NoErr, total |-> r.total,
             rows |-> LimitOffset(OrderByCreatedAt(rows, f), r.limit, r.offset)]

PostWhere(p, filter) ==
    /\ IsNil(filter.content_type_id) \/ p.content_type_id = Deref(filter.content_type_id)
    /\ IsNil(filter.author_id) \/ p.author_id = Deref(filter.author_id)
    /\ IsNil(filter.status) \/ p.status = Deref(filter.status)
    /\ filter.search = "" \/ ILike(p.title, filter.search)

\* JOIN content_types ct ON ..., JOIN users u ON ... of the page query
PostJoined(d, p) ==
    /\ \E ct \in d.content_types : ct.id = p.content_type_id
    /\ \E u \in d.users : u.id = p.author_id

ContentPostList(d, filter) ==
    LET f == Normalize(filter)
        counted == {p \in d.content_posts : PostWhere(p, f)}
        r == RepositoryList("content_posts", f, Cardinality(counted))
    IN IF r.err # NoErr
       THEN [err |-> r.err, total |-> 0, rows |-> <<>>]
       ELSE [err |-> NoErr, total |-> r.total,
             rows |-> LimitOffset(
                          OrderByCreatedAt({p \in counted : PostJoined(d, p)}, f),
                          r.limit, r.offset)]

ListPageStrings == {<<>>, <<"2">>}

ListPageSizeStrings == {<<>>, <<"1">>}

ContactListQueries ==
    [page : ListPageStrings, page_size : ListPageSizeStrings,
     sort_by : {""}, sort_dir : {"", "asc"},
     status : {<<>>, <<"1">>, <<"6", "5", "5", "3", "7">>},
     email : {"", "a", "_"}]
        \cup [page : {<<>>}, page_size : {<<>>}, sort_by : {"name; --"},
              sort_dir : {""}, status : {<<>>}, email : {""}]

PostListQueries ==
    {q \in [page : ListPageStrings, page_size : ListPageSizeStrings,
            sort_by : {""}, sort_dir : {"", "asc"},
            content_type_id : Opt({11}), author_id : Opt({1}),
            status : {<<>>, <<"2">>}, search : {"", "t", "%"}] :
        /\ ~IsNil(q.author_id) => q.status # <<>> /\ q.search = ""
        /\ ~IsNil(q.content_type_id) => q.status = <<>>}

ListResponse(op, q, filter, r) ==
    [op |-> op, id |-> NilUUID, req |-> q, err |-> r.err,
     status |-> HandlerStatus(r.err, {}, 0, StatusOK),
     data |-> [filter |-> filter, rows |-> r.rows,
               meta |-> IF r.err = NoErr THEN ListMeta(filter, r.total)
                        ELSE <<>>],
     details |-> {}]

ContactListHandler ==
    \E q \in ContactListQueries :
        /\ workload = "contact_list"
        /\ \E p \in {parsePaginationParams(q)} :
           \E filter \in {[page |-> p.page, page_size |-> p.page_size,
                           sort_by |-> p.sort_by, sort_dir |-> p.sort_dir,
                           status |-> StatusFilter(q.status), email |-> q.email]} :
           \E r \in {ContactList(db, filter)} :
              Reject(ListResponse("ContactList", q, filter, r))

ContentPostListHandler ==
    \E q \in PostListQueries :
        /\ workload = "post_list"
        /\ \E p \in {parsePaginationParams(q)} :
           \E filter \in {[page |-> p.page, page_size |-> p.page_size,
                           sort_by |-> p.sort_by, sort_dir |-> p.sort_dir,
                           content_type_id |-> q.content_type_id,
                           author_id |-> q.author_id,
                           status |-> StatusFilter(q.status),
                           search |-> q.search]} :
           \E r \in {ContentPostList(db, filter)} :
              Reject(ListResponse("ContentPostList", q, filter, r))

InitList ==
    /\ workload \in {"contact_list", "post_list"}
    /\ db = SeedDB(workload)
    /\ nextId = 0
    /\ clock = 0
    /\ resp = [op |-> "none", id |-> NilUUID, req |-> <<>>, err |-> NoErr,
               status |-> 0, data |-> NoData, details |-> {}]
    /\ tasks = <<>>
    /\ lookup = Idle

\* router.New: the handlers of a path that no route matches and of a
\* method that the route of the path does not take
RouterFallback ==
    \/ Reject([op |-> "NotFound", id |-> NilUUID, req |-> <<>>, err |-> NoErr,
               status |-> StatusNotFound, data |-> NoData, details |-> {}])
    \/ Reject([op |-> "MethodNotAllowed", id |-> NilUUID, req |-> <<>>,
               err |-> NoErr, status |-> StatusMethodNotAllowed,
               data |-> NoData, details |-> {}])

NextList ==
    \/ BadRequestHandler
    \/ RouterFallback
    \/ ContactCreateHandler
    \/ ContactDeleteHandler
    \/ ContactListHandler
    \/ PostCreateHandler
    \/ PostDeleteHandler
    \/ ContentPostListHandler

SpecList == InitList /\ [][NextList]_vars

-----------------------------------------------------------------------------
(* Properties.  A step of a handler leaves its response in resp' and the    *)
(* store after it in db'; db is the store the handler was called on.        *)

\* rp answers a call that reached the repository: its handler refused
\* neither the path identifier, nor the body, nor a field of the request
Called(rp, ops) ==
    /\ rp.op \in ops
    /\ rp.status # StatusUnprocessableEntity
    /\ rp.req \notin {[id |-> "not-a-uuid"], [body |-> "{"]}

Range(seq) == {seq[i] : i \in DOMAIN seq}

\* the tag list of the post create or update request that rp answers
RequestTagIDs(rp) ==
    IF rp.op = "PostCreate" THEN rp.req.tag_ids
    ELSE IF IsNil(rp.req.tag_ids) THEN <<>>
    ELSE Deref(rp.req.tag_ids)

\* the request names a tag that store d does not hold: the insert of its
\* association cannot succeed
TagStepFails(d, rp) ==
    /\ Called(rp, {"PostCreate", "PostUpdate"})
    /\ \E t \in Range(RequestTagIDs(rp)) : t \notin Ids(d.tags)

\* C1: a post create or update whose tag list holds a tag that cannot be
\* associated leaves the post table and the post-tag table as they were
\* before the call: no new post row, no changed post field, no changed
\* association.
C1_AllOrNothing ==
    [][TagStepFails(db, resp')
        => /\ db'.content_posts = db.content_posts
           /\ db'.post_tags = db.post_tags]_vars

\* an update of a stored post that changes the title and replaces the tags by
\* a list whose second tag does not exist has failed in the tag step after
\* the row was updated and the first association written; the post still
\* has its associations
C1_Witness ==
    /\ resp.op = "PostUpdate"
    /\ resp.err = StorageFailure
    /\ ~IsNil(resp.req.title)
    /\ resp.req.tag_ids = <<(<<21, 29>>)>>
    /\ resp.id \in Ids(db.content_posts)
    /\ <<resp.id, 22>> \in db.post_tags

\* the tags associated with a post
PostTagIDs(d, postID) == {pt[2] : pt \in {x \in d.post_tags : x[1] = postID}}

\* C2: after a successful post update that carries a tag list S the tags
\* associated with the post are exactly the ids of S, the post row exists,
\* and getByID of the post returns exactly those tags (none for S = []).
C2_TagsReplaced ==
    (Called(resp, {"PostUpdate"}) /\ resp.err = NoErr
        /\ ~IsNil(resp.req.tag_ids))
        => LET S == Range(Deref(resp.req.tag_ids))
               got == PostGetByID(db, resp.id)
           IN /\ PostTagIDs(db, resp.id) = S
              /\ resp.id \in Ids(db.content_posts)
              /\ got.err = NoErr
              /\ Ids(got.data.tags) = S
              /\ Ids(resp.data.tags) = S

\* a successful update with S = [] of a stored post
C2_Witness ==
    /\ Called(resp, {"PostUpdate"})
    /\ resp.err = NoErr
    /\ resp.req.tag_ids = <<(<<>>)>>
    /\ resp.id \in Ids(db.content_posts)
    /\ PostGetByID(db, resp.id).data.tags = {}

\* no two rows of table agree on field
UniqueOn(table, field) ==
    \A a, b \in table : a[field] = b[field] => a = b

UniqueFields(d) ==
    /\ UniqueOn(d.tags, "name")
    /\ UniqueOn(d.tags, "slug")
    /\ UniqueOn(d.content_types, "name")
    /\ UniqueOn(d.content_types, "slug")
    /\ UniqueOn(d.content_posts, "slug")
    /\ UniqueOn(d.media, "object_key")
    /\ UniqueOn(d.settings, "key")

\* the table a create writes and the unique fields of its rows
CreateTable(d, op) ==
    CASE op = "TagCreate" -> d.tags
      [] op = "ContentTypeCreate" -> d.content_types
      [] op = "PostCreate" -> d.content_posts
      [] op = "MediaCreate" -> d.media
      [] op = "SettingCreate" -> d.settings

CreateUniqueFields(op) ==
    CASE op = "TagCreate" -> {"name", "slug"}
      [] op = "ContentTypeCreate" -> {"name", "slug"}
      [] op = "PostCreate" -> {"slug"}
      [] op = "MediaCreate" -> {"object_key"}
      [] op = "SettingCreate" -> {"key"}

UniqueCreates ==
    {"TagCreate", "ContentTypeCreate", "PostCreate", "MediaCreate", "SettingCreate"}

\* the create request that rp answers gives a unique field the value it has
\* in a row of store d
CreatesDuplicate(d, rp) ==
    /\ Called(rp, UniqueCreates)
    /\ \E row \in CreateTable(d, rp.op), f \in CreateUniqueFields(rp.op) :
           row[f] = rp.req[f]

\* C3: a create whose unique field has the value of a stored entity returns
\* Duplicate and leaves every table as it was; a create of a tag, content
\* type, media or setting whose unique fields are all new succeeds (of two
\* creates of the same value, in either order, exactly the first succeeds);
\* and in every reachable state no two entities of a kind share the value of
\* a unique field.
C3_UniqueFields ==
    /\ UniqueFields(db)
    /\ [][/\ UniqueFields(db')
          /\ CreatesDuplicate(db, resp')
                => (resp'.err = ErrDuplicate /\ db' = db)
          /\ (Called(resp', UniqueCreates \ {"PostCreate"})
                /\ ~CreatesDuplicate(db, resp'))
                => /\ resp'.err = NoErr
                   /\ CreateTable(db', resp'.op)
                        = CreateTable(db, resp'.op) \cup {resp'.data}]_vars

\* a second tag with the name of the stored one and another slug is refused
C3_Witness ==
    /\ resp.op = "TagCreate"
    /\ resp.err = ErrDuplicate
    /\ \E t \in db.tags : t.name = resp.req.name /\ t.slug # resp.req.slug
    /\ Cardinality(db.tags) = 1

\* the write that rp answers violates a foreign key on store d and no unique
\* index: it names a content type, author, post, media or tag that d does
\* not hold
ForeignKeyViolatingWrite(d, rp) ==
    \/ /\ Called(rp, {"PostCreate"})
       /\ ~CreatesDuplicate(d, rp)
       /\ \/ rp.req.content_type_id \notin Ids(d.content_types)
          \/ rp.req.author_id \notin Ids(d.users)
          \/ \E t \in Range(RequestTagIDs(rp)) : t \notin Ids(d.tags)
    \/ /\ Called(rp, {"PostUpdate"})
       /\ rp.id \in Ids(d.content_posts)
       /\ IsNil(rp.req.slug)
            \/ ~\E q \in d.content_posts :
                    q.id # rp.id /\ q.slug = Deref(rp.req.slug)
       /\ \/ /\ ~IsNil(rp.req.content_type_id)
             /\ Deref(rp.req.content_type_id) \notin Ids(d.content_types)
          \/ \E t \in Range(RequestTagIDs(rp)) : t \notin Ids(d.tags)
    \/ /\ Called(rp, {"PostAttachMedia"})
       /\ ~\E pm \in d.post_media :
              pm.post_id = rp.id /\ pm.media_id = rp.req.media_id
       /\ \/ rp.id \notin Ids(d.content_posts)
          \/ rp.req.media_id \notin Ids(d.media)

\* C4: every write that violates a foreign key is answered by the repository
\* with ErrForeignKey, the tag list of a post create or update included.
C4_ForeignKeyViolation ==
    [][ForeignKeyViolatingWrite(db, resp') => resp'.err = ErrForeignKey]_vars

\* the same for the writes other than through a tag list, which the
\* repository does answer with ErrForeignKey
C4_ForeignKeyOutsideTags ==
    [][(ForeignKeyViolatingWrite(db, resp') /\ ~TagStepFails(db, resp'))
        => resp'.err = ErrForeignKey]_vars

\* the identifiers that entities of the store have been given so far
IssuedIds == {11, 12} \cup {NewUUID(n) : n \in 1..nextId}

\* a content type that is gone is not found by id and is the result of no
\* get by slug
ContentTypeGone(d, id) ==
    /\ ContentTypeGetByID(d, id).err = ErrNotFound
    /\ \A slug \in Names :
           LET found == ContentTypeGetBySlug(d, slug)
           IN  found.err = NoErr => found.data.id # id

\* C5: the delete of a stored content type that a post refers to is answered
\* with ErrForeignKey and status 409 and removes nothing; the delete of a
\* stored content type that no post refers to succeeds, a get by its id or
\* by its slug is then answered with ErrNotFound, and a content type that is
\* gone stays gone in every later state (both gets read the content_types
\* table only, so a step that leaves the table alone cannot bring it back).
C5_ContentTypeDelete ==
    [][/\ (Called(resp', {"ContentTypeDelete"})
             /\ resp'.id \in Ids(db.content_types))
          => IF \E p \in db.content_posts : p.content_type_id = resp'.id
             THEN /\ resp'.err = ErrForeignKey
                  /\ resp'.status = StatusConflict
                  /\ db' = db
             ELSE /\ resp'.err = NoErr
                  /\ ContentTypeGone(db', resp'.id)
                  /\ ContentTypeGetBySlug(db',
                        Row(db.content_types, resp'.id).slug).err = ErrNotFound
       /\ db'.content_types # db.content_types
              => \A id \in IssuedIds :
                     ContentTypeGone(db, id) => ContentTypeGone(db', id)]_vars

\* the delete of a content type that a post refers to has been refused
C5_Witness ==
    /\ resp.op = "ContentTypeDelete"
    /\ resp.err = ErrForeignKey
    /\ resp.status = StatusConflict
    /\ \E p \in db.content_posts : p.content_type_id = resp.id

\* the delete of a content type that no post refers to has succeeded
C5_WitnessUnreferenced ==
    /\ resp.op = "ContentTypeDelete"
    /\ resp.err = NoErr
    /\ resp.id \in IssuedIds
    /\ ContentTypeGone(db, resp.id)

\* C6: the delete of a media row that is attached to a post is answered with
\* ErrForeignKey and status 409, and leaves the media row and its
\* attachments stored.
C6_MediaDeleteBlocked ==
    [][(Called(resp', {"MediaDelete"})
          /\ \E pm \in db.post_media : pm.media_id = resp'.id)
        => /\ resp'.err = ErrForeignKey
           /\ resp'.status = StatusConflict
           /\ db'.media = db.media
           /\ db'.post_media = db.post_media]_vars

\* the get, update or delete that rp answers names an identifier (a key for
\* a setting) that store d does not hold
NotStoredCall(d, rp) ==
    \/ Called(rp, {"TagGet", "TagUpdate", "TagDelete"})
         /\ rp.id \notin Ids(d.tags)
    \/ Called(rp, {"ContentTypeGet", "ContentTypeUpdate", "ContentTypeDelete"})
         /\ rp.id \notin Ids(d.content_types)
    \/ Called(rp, {"MediaGet", "MediaUpdate", "MediaDelete"})
         /\ rp.id \notin Ids(d.media)
    \/ Called(rp, {"SettingGet", "SettingUpdate", "SettingDelete"})
         /\ rp.id \notin {x.key : x \in d.settings}
    \/ Called(rp, {"ContactGet", "ContactUpdate", "ContactDelete"})
         /\ rp.id \notin Ids(d.contact_submissions)
    \/ Called(rp, {"PostGet", "PostUpdate", "PostDelete"})
         /\ rp.id \notin Ids(d.content_posts)

\* C7: a get by id, an update or a delete that names an entity that is not
\* stored is answered with ErrNotFound and changes nothing, whatever the
\* update request holds.
C7_NotFound ==
    [][NotStoredCall(db, resp') => (resp'.err = ErrNotFound /\ db' = db)]_vars

\* the same for every call but an update of a post with a non-empty tag list
\* and no other field
C7_NotFoundOutsideTagsOnly ==
    [][(NotStoredCall(db, resp')
          /\ ~(resp'.op = "PostUpdate"
                 /\ PostSetClauses(resp'.req) = {}
                 /\ RequestTagIDs(resp') # <<>>))
        => (resp'.err = ErrNotFound /\ db' = db)]_vars

\* the row a partial update of row old must store: a field the request does
\* not hold, or holds as nil, keeps its value; a field it gives takes the
\* value given (the pointer itself for a nullable column)
PartialUpdate(old, req, nullable) ==
    [f \in DOMAIN old |->
        IF f \notin DOMAIN req \/ IsNil(req[f]) THEN old[f]
        ELSE IF f \in nullable THEN req[f]
        ELSE Deref(req[f])]

\* table after is table before with the row of key k replaced by row
Replaced(before, after, field, k, row) ==
    after = {IF r[field] = k THEN row ELSE r : r \in before}

\* the request holds no field
EmptyRequest(req) == \A f \in DOMAIN req : IsNil(req[f])

\* the fields of the request of a contact update; read_at is set by the
\* repository and is none of them
ContactKeeps(old, new, req) ==
    \A f \in DOMAIN old \ {"read_at"} :
        new[f] = PartialUpdate(old, req, {})[f]

\* C8: after a successful update every field absent from the request has the
\* value stored before and every field present has the value requested; a
\* post keeps its tag associations when the request holds no tag list and
\* always its view count; an update whose request holds no field leaves the
\* store as it was and returns the entity as stored.
C8_PartialUpdate ==
    [][(resp'.err = NoErr) =>
        /\ Called(resp', {"TagUpdate"})
             => LET old == Row(db.tags, resp'.id)
                IN /\ Replaced(db.tags, db'.tags, "id", resp'.id,
                               PartialUpdate(old, resp'.req, {}))
                   /\ EmptyRequest(resp'.req)
                        => (db' = db /\ resp'.data = old)
        /\ Called(resp', {"ContentTypeUpdate"})
             => LET old == Row(db.content_types, resp'.id)
                IN /\ Replaced(db.content_types, db'.content_types, "id",
                               resp'.id, PartialUpdate(old, resp'.req, {}))
                   /\ EmptyRequest(resp'.req)
                        => (db' = db /\ resp'.data = old)
        /\ Called(resp', {"MediaUpdate"})
             => LET old == Row(db.media, resp'.id)
                IN /\ Replaced(db.media, db'.media, "id", resp'.id,
                               PartialUpdate(old, resp'.req, {"alt_text"}))
                   /\ EmptyRequest(resp'.req)
                        => (db' = db /\ resp'.data = old)
        /\ Called(resp', {"SettingUpdate"})
             => LET old == CHOOSE x \in db.settings : x.key = resp'.id
                IN /\ Replaced(db.settings, db'.settings, "key", resp'.id,
                               PartialUpdate(old, resp'.req,
                                             {"value", "description"}))
                   /\ EmptyRequest(resp'.req)
                        => (db' = db /\ resp'.data = old)
        /\ Called(resp', {"ContactUpdate"})
             => LET old == Row(db.contact_submissions, resp'.id)
                    new == Row(db'.contact_submissions, resp'.id)
                IN /\ ContactKeeps(old, new, resp'.req)
                   /\ Replaced(db.contact_submissions,
                               db'.contact_submissions, "id", resp'.id, new)
                   /\ EmptyRequest(resp'.req)
                        => (db' = db /\ resp'.data = old)
        /\ Called(resp', {"PostUpdate"})
             => LET old == Row(db.content_posts, resp'.id)
                    new == Row(db'.content_posts, resp'.id)
                IN /\ Replaced(db.content_posts, db'.content_posts, "id",
                               resp'.id, PartialUpdate(old, resp'.req, {}))
                   /\ new.view_count = old.view_count
                   /\ IsNil(resp'.req.tag_ids)
                        => db'.post_tags = db.post_tags
                   /\ EmptyRequest(resp'.req)
                        => /\ db' = db
                           /\ resp'.data = PostGetByID(db, resp'.id).data]_vars

\* a post that has been viewed has been given a new title by an update that
\* holds neither a status nor a tag list
C8_Witness ==
    /\ Called(resp, {"PostUpdate"})
    /\ resp.err = NoErr
    /\ resp.req.title = <<"T2">>
    /\ IsNil(resp.req.status)
    /\ IsNil(resp.req.tag_ids)
    /\ Row(db.content_posts, resp.id).view_count = 1
    /\ Row(db.content_posts, resp.id).status = PostStatusDraft

\* 1 <= x <= 100
InPageSizeRange(x) == ~LessThanOne(x) /\ ~GreaterThan100(x)

\* Normalize maps the parameters raw to n as the contract of pagination says
NormalizedAsSpecified(raw, n) ==
    /\ n.page = IF LessThanOne(raw.page) THEN I64(1) ELSE raw.page
    /\ ~LessThanOne(n.page)
    /\ n.page_size = IF LessThanOne(raw.page_size) THEN I64(20)
                     ELSE IF GreaterThan100(raw.page_size) THEN I64(100)
                     ELSE raw.page_size
    /\ InPageSizeRange(n.page_size)
    /\ n.sort_dir = IF raw.sort_dir \in {"asc", "desc"} THEN raw.sort_dir
                    ELSE "desc"
    /\ n.sort_by = raw.sort_by
    /\ Normalize(n) = n

\* a query has been parsed
Parsed == resp.op \in {"parsePaginationParams", "List", "NewPaginatedResult"}

\* C9: for every page, page size and sort direction Normalize yields
\* page >= 1 (1 for a page below 1, the page itself otherwise), a page size
\* within 1..100 (20 for a size below 1, 100 for a size above 100, the size
\* itself otherwise) and a sort direction of asc or desc (desc for any other
\* value), the offset (page - 1) * pageSize is then >= 0, and Normalize
\* applied to its result changes nothing.
C9_Normalize ==
    Parsed =>
        /\ NormalizedAsSpecified(resp.data.raw, Normalize(resp.data.raw))
        /\ resp.data.filter = Normalize(resp.data.raw)
        /\ ~IsNeg(Offset(resp.data.filter))

\* the part of C9 that does not depend on the width of int
C9_NormalizeWithoutOffset ==
    Parsed =>
        /\ NormalizedAsSpecified(resp.data.raw, Normalize(resp.data.raw))
        /\ resp.data.filter = Normalize(resp.data.raw)

\* the offset is >= 0 when (page - 1) * pageSize does not exceed the largest
\* int: the product, computed without wrapping, has no carry out of 64 bits
\* and no sign bit
C9_OffsetWithoutOverflow ==
    Parsed =>
        LET f == resp.data.filter
            m == MulAdd(Dec(f.page), Small(f.page_size), 0)
        IN (m.carry = 0 /\ ~IsNeg(m.limbs)) => ~IsNeg(Offset(f))

\* the smallest number >= total / pageSize
Ceil(total, pageSize) == (total + pageSize - 1) \div pageSize

\* C10: the total_pages of the meta of a list response is
\* ceil(total / page_size), for every normalized page size and every total
\* (stated here for the totals >= 1: a list that matches no row is the
\* subject of C11).
C10_TotalPagesIsCeil ==
    (resp.op = "List" /\ resp.err = NoErr /\ resp.data.meta.total >= 1)
        => resp.data.meta.total_pages
             = Ceil(resp.data.meta.total, Small(resp.data.meta.page_size))

\* the total_pages of the meta is ceil(total / page_size) when the page size
\* does not divide the total
C10_TotalPagesOffMultiples ==
    (resp.op = "List" /\ resp.err = NoErr
        /\ resp.data.meta.total % Small(resp.data.meta.page_size) # 0)
        => resp.data.meta.total_pages
             = Ceil(resp.data.meta.total, Small(resp.data.meta.page_size))

\* a list response that matched no row
EmptyList == resp.op = "List" /\ resp.err = NoErr /\ resp.data.meta.total = 0

\* a paginated result built for no row
EmptyResult == resp.op = "NewPaginatedResult" /\ resp.data.result.total = 0

\* C11: when a list matches no row the total pages reported are 1, in the
\* result NewPaginatedResult builds and in the meta of a list response.
C11_EmptyListOnePage ==
    /\ EmptyList => resp.data.meta.total_pages = 1
    /\ EmptyResult => resp.data.result.total_pages = 1

\* the part of C11 about the meta of a list response
C11_EmptyListMeta ==
    EmptyList => resp.data.meta.total_pages = 1

\* what NewPaginatedResult reports for no row
C11_EmptyResultZeroPages ==
    EmptyResult => resp.data.result.total_pages = 0

\* C12: for every total >= 0 and every page size within 1..100 the total
\* pages a list handler writes in the meta are the total pages
\* NewPaginatedResult computes for the same total and parameters.
C12_SameTotalPages ==
    (resp.op = "List" /\ resp.err = NoErr)
        => resp.data.meta.total_pages
             = NewPaginatedResult(resp.data.meta.total,
                                  resp.data.filter).total_pages

\* the two agree exactly when the page size does not divide the total
C12_SameOffMultiples ==
    (resp.op = "List" /\ resp.err = NoErr)
        => LET meta == resp.data.meta
               result == NewPaginatedResult(meta.total, resp.data.filter)
           IN (meta.total_pages = result.total_pages)
                <=> (meta.total % Small(meta.page_size) # 0)

\* the setting stored under key in store d
SettingOfKey(d, key) == CHOOSE x \in d.settings : x.key = key

\* C18: an upsert whose key is stored replaces the value and the description
\* of that row and nothing else, keeps and returns the row's identifier and
\* leaves the number of rows as it was; an upsert whose key is not stored
\* adds exactly one row; no state holds two rows of one key.
C18_Upsert ==
    /\ UniqueOn(db.settings, "key")
    /\ [][/\ UniqueOn(db'.settings, "key")
          /\ Called(resp', {"SettingUpsert"}) =>
                /\ resp'.err = NoErr
                /\ IF \E x \in db.settings : x.key = resp'.req.key
                   THEN LET old == SettingOfKey(db, resp'.req.key)
                            new == SettingOfKey(db', resp'.req.key)
                        IN /\ new = [old EXCEPT
                                       !.value = resp'.req.value,
                                       !.description = resp'.req.description]
                           /\ new.id = old.id
                           /\ resp'.data.id = old.id
                           /\ db'.settings \ {new} = db.settings \ {old}
                           /\ Cardinality(db'.settings)
                                = Cardinality(db.settings)
                   ELSE /\ db.settings \subseteq db'.settings
                        /\ Cardinality(db'.settings)
                             = Cardinality(db.settings) + 1
                        /\ db'.settings \ db.settings = {resp'.data}
                        /\ resp'.data.key = resp'.req.key
                        /\ resp'.data.id \notin Ids(db.settings)]_vars

\* an upsert has replaced the value of a setting stored before it: the
\* identifier returned is not the one generated last
C18_Witness ==
    /\ Called(resp, {"SettingUpsert"})
    /\ resp.err = NoErr
    /\ nextId = 2
    /\ resp.data.id = NewUUID(1)
    /\ Cardinality(db.settings) = 2
    /\ SettingOfKey(db, resp.req.key).value = resp.req.value

\* the request of a contact create or update has no field for read_at
NoReadAtField(rp) ==
    Called(rp, {"ContactCreate", "ContactUpdate"})
        => "read_at" \notin DOMAIN rp.req

\* C20: a contact is created with a null read timestamp; an update to status
\* "read" leaves the timestamp non-null; an update to another status or
\* without a status leaves it as it was; the timestamp changes in no other
\* step, no request has a field for it, and an update changes no field of a
\* contact but status and read timestamp.
C20_ReadTimestamp ==
    [][/\ NoReadAtField(resp')
       /\ (Called(resp', {"ContactCreate"}) /\ resp'.err = NoErr)
            => /\ IsNil(resp'.data.read_at)
               /\ IsNil(Row(db'.contact_submissions, resp'.id).read_at)
       /\ (Called(resp', {"ContactUpdate"}) /\ resp'.err = NoErr)
            => LET old == Row(db.contact_submissions, resp'.id)
                   new == Row(db'.contact_submissions, resp'.id)
               IN /\ resp'.req.status = <<ContactStatusRead>>
                        => ~IsNil(new.read_at)
                  /\ resp'.req.status # <<ContactStatusRead>>
                        => new.read_at = old.read_at
                  /\ \A f \in DOMAIN old \ {"status", "read_at"} :
                         new[f] = old[f]
                  /\ resp'.data = new
       /\ \A c \in db.contact_submissions :
              (c.id \in Ids(db'.contact_submissions)
                 /\ Row(db'.contact_submissions, c.id).read_at # c.read_at)
                => /\ resp'.op = "ContactUpdate"
                   /\ resp'.id = c.id
                   /\ resp'.req.status = <<ContactStatusRead>>]_vars

\* a contact that was read has been given the status "replied" and keeps
\* its read timestamp
C20_Witness ==
    /\ Called(resp, {"ContactUpdate"})
    /\ resp.err = NoErr
    /\ resp.req.status = <<ContactStatusReplied>>
    /\ ~IsNil(Row(db.contact_submissions, resp.id).read_at)

\* the requested keys that store d holds with a value that is not null
KeysWithValue(d, keys) ==
    {k \in Range(keys) : \E x \in d.settings : x.key = k /\ ~IsNil(x.value)}

\* a bulk request that reached the repository has been answered
BulkAnswered == resp.op = "SettingGetMultiple" /\ resp.status # StatusBadRequest

\* C19: getMultiple returns without error a mapping whose keys are exactly
\* the requested keys stored with a value that is not null, each mapped to
\* the value stored; a requested key that is not stored or whose value is
\* null is absent.
C19_GetMultiple ==
    BulkAnswered
        => /\ resp.err = NoErr
           /\ resp.status = StatusOK
           /\ DOMAIN resp.data = KeysWithValue(db, resp.req.keys)
           /\ \A k \in DOMAIN resp.data :
                  <<resp.data[k]>> = SettingOfKey(db, k).value

\* a request for a key stored with a value, a key stored with a null value
\* and a key that is not stored has been answered with the first key alone
C19_Witness ==
    /\ BulkAnswered
    /\ resp.req.keys = <<"k1", "k2", "k9">>
    /\ DOMAIN resp.data = {"k1"}
    /\ \E x \in db.settings : x.key = "k2" /\ IsNil(x.value)

\* a list request whose offset fits an int has been answered
ListedInRange == resp.op = "List" /\ ~IsNeg(resp.data.offset)

\* C13: a list request of any entity whose page, page size, sort column and
\* sort direction are missing or out of range is answered with status 200:
\* the parameters fall back to defaults that are valid for the entity
\* (stated for the pages whose offset fits an int: the others are the
\* subject of C9).
C13_ListNeverFails ==
    ListedInRange
        => /\ resp.err = NoErr
           /\ resp.status = StatusOK
           /\ resp.data.filter.sort_by \in Columns(resp.data.entity)

\* the same for a request without a sort column on the entities that have
\* the column created_at
C13_ListWithCreatedAt ==
    (ListedInRange /\ resp.req.sort_by = ""
        /\ "created_at" \in Columns(resp.data.entity))
        => /\ resp.err = NoErr
           /\ resp.status = StatusOK

\* a list is refused exactly when its sort column is no column of the table
C13_RefusedSortColumn ==
    ListedInRange
        => (resp.err = NoErr
              <=> resp.data.filter.sort_by \in Columns(resp.data.entity))


\* search occurs in text, letters compared without case
Contains(text, search) ==
    LET t == Chars(text)
        s == Chars(search)
    IN \E i \in 0..Len(t) :
          /\ i + Len(s) <= Len(t)
          /\ \A j \in 1..Len(s) : Lower(t[i + j]) = Lower(s[j])

ContactSatisfies(c, f) ==
    /\ IsNil(f.status) \/ c.status = Deref(f.status)
    /\ f.email = "" \/ Contains(c.email, f.email)

PostSatisfies(p, f) ==
    /\ IsNil(f.content_type_id) \/ p.content_type_id = Deref(f.content_type_id)
    /\ IsNil(f.author_id) \/ p.author_id = Deref(f.author_id)
    /\ IsNil(f.status) \/ p.status = Deref(f.status)
    /\ f.search = "" \/ Contains(p.title, f.search)

\* a list that was answered, of the store of this state
Listed == resp.op \in {"ContactList", "ContentPostList"} /\ resp.err = NoErr

\* the stored rows that satisfy every filter of the answered request
FilteredRows ==
    IF resp.op = "ContactList"
    THEN {c \in db.contact_submissions : ContactSatisfies(c, resp.data.filter)}
    ELSE {p \in db.content_posts : PostSatisfies(p, resp.data.filter)}

\* the text the answered request searches for
SearchText ==
    IF resp.op = "ContactList" THEN resp.data.filter.email
    ELSE resp.data.filter.search

\* the total the same request gets on another page
TotalOf(f) ==
    IF resp.op = "ContactList" THEN ContactList(db, f).total
    ELSE ContentPostList(db, f).total

\* the answer holds the total and the page of the rows in selected
PageOf(selected) ==
    LET f == resp.data.filter
        size == Small(f.page_size)
        offset == (Small(f.page) - 1) * size
        ordered == OrderByCreatedAt(selected, f)
        total == resp.data.meta.total
        data == resp.data.rows
    IN /\ total = Cardinality(selected)
       /\ \A page \in 1..3, pageSize \in 1..3 :
             TotalOf([f EXCEPT !.page = I64(page),
                               !.page_size = I64(pageSize)]) = total
       /\ Len(data) <= size
       /\ Len(data) = IF offset >= total THEN 0
                      ELSE IF total - offset < size THEN total - offset
                      ELSE size
       /\ \A i \in 1..Len(data) : data[i] = ordered[offset + i]

\* C14: an answered list returns as total the number of stored rows that
\* satisfy every filter of the request, whatever the page and the page
\* size, and as data the rows at positions offset .. offset + pageSize - 1 of
\* those rows in the requested order, none when offset >= total.
C14_ListPage == Listed => PageOf(FilteredRows)

\* C14, for a text filter without the characters % and _: the total and the
\* page are those of the rows that satisfy the filters.
C14_ListPageOfPlainText ==
    (Listed /\ \A i \in DOMAIN Chars(SearchText) :
                  Chars(SearchText)[i] \notin {"%", "_"})
        => PageOf(FilteredRows)

\* C14, with the text filter read as a pattern: the total and the page are
\* always those of the rows the WHERE clause selects.
C14_ListPageOfPattern ==
    Listed =>
        PageOf(IF resp.op = "ContactList"
               THEN {c \in db.contact_submissions : ContactWhere(c, resp.data.filter)}
               ELSE {p \in db.content_posts : PostWhere(p, resp.data.filter)})

\* C14: the second page of one row of a filtered list of two rows or more
C14_SecondPage ==
    /\ Listed
    /\ resp.data.filter.page = I64(2)
    /\ resp.data.filter.page_size = I64(1)
    /\ SearchText \notin {"", "%", "_"}
    /\ resp.data.meta.total >= 2
    /\ Len(resp.data.rows) = 1


\* the increments of the view counter of a post that completed successfully
Incremented(id) ==
    Cardinality({i \in DOMAIN tasks :
                    tasks[i].post = id /\ tasks[i].state = "incremented"})

\* the goroutine i completes its increment in this step
Completes(i) ==
    /\ i \in DOMAIN tasks
    /\ tasks[i].state = "started"
    /\ tasks'[i].state = "incremented"

\* C17: the view counter of a stored post never decreases; a created post
\* starts at zero and an update leaves the counter as it was; an increment
\* that completes raises the counter of its post by one and no other, so
\* that the counter of a post is always the number of the increments of that
\* post that completed, however they interleave with each other and with
\* the updates of the post.
C17_ViewCounter ==
    /\ [](\A p \in db.content_posts : p.view_count = Incremented(p.id))
    /\ [][/\ \A p \in db.content_posts, q \in db'.content_posts :
                q.id = p.id => q.view_count >= p.view_count
          /\ \A q \in db'.content_posts :
                q.id \notin Ids(db.content_posts) => q.view_count = 0
          /\ resp'.op \in {"PostCreate", "PostUpdate"}
                => \A p \in db.content_posts, q \in db'.content_posts :
                      q.id = p.id => q.view_count = p.view_count
          /\ \A i \in DOMAIN tasks :
                Completes(i)
                  => \A p \in db.content_posts :
                        \E q \in db'.content_posts :
                           /\ q.id = p.id
                           /\ q.view_count = IF p.id = tasks[i].post
                                             THEN p.view_count + 1
                                             ELSE p.view_count]_vars

\* two increments of a post have completed and the post has been updated
C17_Witness ==
    /\ resp.op = "IncrementViewCount"
    /\ \E p \in db.content_posts :
          /\ p.id = resp.id
          /\ p.view_count = 2
          /\ p.title = "T2"
          /\ p.status = PostStatusArchived


\* C16: the answer of a read by slug is that of the store the handler was
\* called on, with the view count not yet incremented, and is given while the
\* increment it started has not run; the step of the increment answers no
\* caller and reports nothing, whether the increment succeeds or fails.
C16_ResponseBeforeIncrement ==
    [][/\ resp'.op = "PostGetBySlug"
            => LET r == PostGetBySlug(db, resp'.req.slug)
               IN /\ db' = db
                  /\ resp'.err = r.err
                  /\ resp'.data = r.data
                  /\ resp'.status = IF r.err = NoErr THEN StatusOK
                                    ELSE StatusNotFound
                  /\ tasks' = IF r.err = NoErr
                              THEN Append(tasks, [post |-> r.data.post.id,
                                                  state |-> "started"])
                              ELSE tasks
       /\ resp'.op = "IncrementViewCount"
            => /\ resp'.err = NoErr
               /\ resp'.status = 0
               /\ resp'.data = NoData
               /\ \E i \in DOMAIN tasks :
                     /\ tasks[i].state = "started"
                     /\ tasks'[i].state \in {"incremented", "failed"}
                     /\ tasks'[i].state = "failed" => db' = db]_vars

\* of two reads by slug that were answered, the increment of one has
\* succeeded and that of the other has failed
C16_Witness ==
    /\ resp.op = "IncrementViewCount"
    /\ \E i, j \in DOMAIN tasks :
          /\ tasks[i].state = "incremented"
          /\ tasks[j].state = "failed"
          /\ tasks[i].post = tasks[j].post


\* the goroutine i has been started and has not run
Started(i) == i \in DOMAIN tasks /\ tasks[i].state = "started"

\* C15: after every read by slug that was answered with the post, the
\* increment it started eventually raises the view count of the post, unless
\* the post is deleted first.
C15_EventuallyIncremented ==
    \A i \in 1..MaxViews :
        Started(i) ~> (/\ i \in DOMAIN tasks
                       /\ \/ tasks[i].state = "incremented"
                          \/ tasks[i].post \notin Ids(db.content_posts))

\* C15, the part that holds: the goroutine of every answered read by slug
\* eventually runs, and either increments or is refused.
C15_EventuallyRuns ==
    \A i \in 1..MaxViews :
        Started(i) ~> (/\ i \in DOMAIN tasks
                       /\ tasks[i].state \in {"incremented", "failed"})

\* C15: a post has been read once by slug and its view count is still 0
\* after the goroutine has run
C15_ReadOnceNotCounted ==
    /\ Len(tasks) = 1
    /\ tasks[1].state = "failed"
    /\ \E p \in db.content_posts : p.id = tasks[1].post /\ p.view_count = 0
    /\ resp.op = "PostGet"
    /\ resp.err = NoErr
    /\ resp.data.post.view_count = 0


\* C21: once the read timestamp of a contact is set, no later step changes
\* its value, a repeated update to status "read" included.
C21_ReadAtSetOnce ==
    [][\A c \in db.contact_submissions :
          (~IsNil(c.read_at) /\ c.id \in Ids(db'.contact_submissions))
            => Row(db'.contact_submissions, c.id).read_at = c.read_at]_vars

\* C21, the part that holds: a read timestamp that is set is never null
\* again, and only an update to status "read" replaces it, by a later time.
C21_ReadAtStaysSet ==
    [][\A c \in db.contact_submissions :
          (~IsNil(c.read_at) /\ c.id \in Ids(db'.contact_submissions))
            => LET new == Row(db'.contact_submissions, c.id)
               IN /\ ~IsNil(new.read_at)
                  /\ new.read_at # c.read_at
                       => /\ resp'.op = "ContactUpdate"
                          /\ resp'.req.status = <<ContactStatusRead>>
                          /\ Deref(new.read_at) > Deref(c.read_at)]_vars

\* C21: a contact that was read is updated to status "read" again and its
\* read timestamp is the time of the second update
C21_ReadTwice ==
    /\ resp.op = "ContactUpdate"
    /\ resp.err = NoErr
    /\ resp.req.status = <<ContactStatusRead>>
    /\ clock = 2
    /\ resp.data.read_at = <<2>>


\* the handlers that answer a request on a stored entity or a new one
CreateOps ==
    {"TagCreate", "ContentTypeCreate", "MediaCreate", "SettingCreate",
     "ContactCreate", "PostCreate"}

UpdateOps ==
    {"TagUpdate", "ContentTypeUpdate", "MediaUpdate", "SettingUpdate",
     "SettingUpsert", "ContactUpdate", "PostUpdate"}

DeleteOps ==
    {"TagDelete", "ContentTypeDelete", "MediaDelete", "SettingDelete",
     "ContactDelete", "PostDelete", "PostDetachMedia"}

ReadOps ==
    {"TagGet", "ContentTypeGet", "MediaGet", "SettingGet", "SettingGetMultiple",
     "ContactGet", "PostGet", "PostGetBySlug"}

HandlerOps == CreateOps \cup UpdateOps \cup DeleteOps \cup ReadOps \cup {"PostAttachMedia"}

\* rp refuses a malformed identifier or body
RefusedMalformed(rp) ==
    /\ rp.op \in HandlerOps
    /\ rp.req \in {[id |-> "not-a-uuid"], [body |-> "{"]}

\* the status the kind of a repository error is to be answered with
StatusOfError(op, err) ==
    IF err = ErrNotFound THEN StatusNotFound
    ELSE IF err = ErrDuplicate THEN StatusConflict
    ELSE IF err = ErrForeignKey
    THEN IF op \in DeleteOps THEN StatusConflict ELSE StatusBadRequest
    ELSE StatusInternalServerError

\* C22: every handler answers a repository error with the status of its
\* kind, 404 for NotFound, 409 for Duplicate, 400 for ForeignKeyViolation on
\* create, update and attach and 409 on delete, 500 for any other error; a
\* malformed body or identifier is answered 400 and the store is not touched.
C22_ErrorStatus ==
    [][/\ (resp'.op \in HandlerOps /\ resp'.err # NoErr)
            => resp'.status = StatusOfError(resp'.op, resp'.err)
       /\ RefusedMalformed(resp')
            => /\ resp'.status = StatusBadRequest
               /\ resp'.err = NoErr
               /\ db' = db
               /\ nextId' = nextId]_vars

\* the delete of a content type that posts reference is answered 409
C22_Witness ==
    /\ resp.op = "ContentTypeDelete"
    /\ resp.err = ErrForeignKey
    /\ resp.status = StatusConflict


-----------------------------------------------------------------------------
(* Validation of create requests *)

\* the required fields of a create request, by the kind of their value
RequiredText(op) ==
    CASE op \in {"TagCreate", "ContentTypeCreate"} -> {"name", "slug"}
      [] op = "MediaCreate" -> {"file_name", "object_key", "bucket_name", "mime_type"}
      [] op = "SettingCreate" -> {"key"}
      [] op = "ContactCreate" -> {"name", "email", "message"}
      [] op = "PostCreate" -> {"title", "slug"}
      [] OTHER -> {}

RequiredId(op) ==
    IF op = "PostCreate" THEN {"content_type_id", "author_id"} ELSE {}

RequiredNumber(op) ==
    IF op = "MediaCreate" THEN {"file_size", "file_type"} ELSE {}

\* the required fields the request does not give (a field that is absent
\* from the body decodes to the zero value of its type)
MissingFields(op, req) ==
    {f \in RequiredText(op) : req[f] = ""}
        \cup {f \in RequiredId(op) : req[f] = NilUUID}
        \cup {f \in RequiredNumber(op) : req[f] = 0}

\* the fields of the request whose value is not acceptable
InvalidFields(op, req) ==
    MissingFields(op, req)
        \cup {f \in RequiredNumber(op) \cap {"file_size"} : req[f] <= 0}
        \cup {f \in RequiredNumber(op) \cap {"file_type"} : req[f] \notin 1..3}

\* the last answer is to a create request whose body was decoded
CreateAnswered == resp.op \in CreateOps /\ resp.req # [body |-> "{"]

\* C23: a create request that misses required fields is answered 422 with
\* details that name every invalid field of the request.
C23_NamesEveryInvalidField ==
    (CreateAnswered /\ MissingFields(resp.op, resp.req) # {})
        => /\ resp.status = StatusUnprocessableEntity
           /\ resp.err = NoErr
           /\ InvalidFields(resp.op, resp.req) \subseteq resp.details

\* a post request without title, slug, content type and author has been
\* answered with the four fields named
C23_Witness ==
    /\ resp.op = "PostCreate"
    /\ resp.status = StatusUnprocessableEntity
    /\ MissingFields(resp.op, resp.req)
         = {"title", "slug", "content_type_id", "author_id"}
    /\ resp.details = {"title", "slug", "content_type_id", "author_id"}

\* C24: a request that a handler rejects with ValidationError or BadRequest
\* leaves the stored state and the identifiers as they were.
C24_RejectedKeepsStore ==
    [][(resp'.status \in {StatusUnprocessableEntity, StatusBadRequest}
            /\ resp'.err = NoErr)
          => (db' = db /\ nextId' = nextId /\ tasks' = tasks)]_vars

\* an attachment without media identifier has been rejected while a post is
\* stored
C24_Witness ==
    /\ resp.op = "PostAttachMedia"
    /\ resp.status = StatusUnprocessableEntity
    /\ resp.req.media_id = NilUUID
    /\ db.content_posts # {}

\* C30: the details of a validation error on create name exactly the
\* invalid fields of the request.
C30_ExactDetails ==
    (CreateAnswered /\ resp.status = StatusUnprocessableEntity)
        => resp.details = InvalidFields(resp.op, resp.req)

\* the details are exact for media, settings, contacts and posts; for tags
\* and content types they are name and slug whichever of the two is missing
C30_ExactDetailsButNameSlug ==
    (CreateAnswered /\ resp.status = StatusUnprocessableEntity)
        => IF resp.op \in {"TagCreate", "ContentTypeCreate"}
           THEN resp.details = {"name", "slug"}
           ELSE resp.details = InvalidFields(resp.op, resp.req)

\* a tag request with a name and no slug has been answered with both named
C30_NameNamedThoughGiven ==
    /\ resp.op = "TagCreate"
    /\ resp.status = StatusUnprocessableEntity
    /\ resp.req.name = "b"
    /\ resp.req.slug = ""
    /\ resp.details = {"name", "slug"}


-----------------------------------------------------------------------------
(* The entity in the response of a mutating handler *)

\* the models.ContentPost that ContentPostRepository.Create returns: the
\* struct is filled from the request and the RETURNING columns, and its
\* ContentType, Author, Tags and Media are left nil
UnloadedPost(post) ==
    [post |-> post, content_type |-> <<>>, author |-> <<>>,
     tags |-> {}, media |-> {}]

\* the entity the handler writes into the response rp
ResponseEntity(rp) ==
    IF rp.op = "PostCreate" THEN UnloadedPost(rp.data) ELSE rp.data

\* what the repository's read by identifier returns for the entity of rp
LoadedEntity(d, rp) ==
    CASE rp.op \in {"TagCreate", "TagUpdate"} -> TagGetByID(d, rp.data.id).data
      [] rp.op \in {"ContentTypeCreate", "ContentTypeUpdate"}
            -> ContentTypeGetByID(d, rp.data.id).data
      [] rp.op \in {"MediaCreate", "MediaUpdate"} -> MediaGetByID(d, rp.data.id).data
      [] rp.op \in {"SettingCreate", "SettingUpdate", "SettingUpsert"}
            -> SettingGetByKey(d, rp.data.key).data
      [] rp.op \in {"ContactCreate", "ContactUpdate"}
            -> ContactGetByID(d, rp.data.id).data
      [] rp.op \in {"PostCreate", "PostUpdate"} -> PostGetByID(d, rp.id).data

\* rp answers a create, update or upsert that succeeded
Mutated(rp) ==
    /\ rp.op \in CreateOps \cup UpdateOps
    /\ rp.err = NoErr
    /\ rp.status \in {StatusOK, StatusCreated}

\* C25: the entity in the response of a successful create, update or upsert
\* equals what the read by identifier returns right after it; for a post
\* with its content type, author, tags and media.
C25_ReturnsLoadedEntity ==
    [][Mutated(resp') => ResponseEntity(resp') = LoadedEntity(db', resp')]_vars

\* every successful create, update and upsert but the create of a post
\* returns the loaded entity; the create of a post returns the columns of
\* the stored row alone
C25_ReturnsLoadedButPostCreate ==
    [][Mutated(resp')
         => IF resp'.op = "PostCreate"
            THEN resp'.data = LoadedEntity(db', resp').post
            ELSE resp'.data = LoadedEntity(db', resp')]_vars

\* a post has been created with two tags and the response holds no tag
C25_CreatedWithTagUnloaded ==
    /\ resp.op = "PostCreate"
    /\ resp.status = StatusCreated
    /\ resp.req.tag_ids = <<21, 22>>
    /\ ResponseEntity(resp).tags = {}
    /\ Ids(LoadedEntity(db, resp).tags) = {21, 22}


-----------------------------------------------------------------------------
(* The client of a contact request *)

\* the text of an address: its four bytes in decimal between dots
RECURSIVE Itoa(_)
Itoa(n) ==
    LET digit == CHOOSE c \in {"0", "1", "2", "3", "4", "5", "6", "7", "8", "9"} :
                     DigitOf(c) = n % 10
    IN IF n < 10 THEN <<digit>> ELSE Itoa(n \div 10) \o <<digit>>

IPString(ip) ==
    Itoa(ip[1]) \o <<".">> \o Itoa(ip[2]) \o <<".">> \o Itoa(ip[3])
        \o <<".">> \o Itoa(ip[4])

\* the address the request names: the forwarded-for header, else the
\* real-IP header, else the address of the connection
PreferredAddress(req) ==
    CHOOSE a \in {req.x_forwarded_for, req.x_real_ip, req.remote_addr} :
        \/ a = req.x_forwarded_for /\ a # ""
        \/ req.x_forwarded_for = "" /\ a = req.x_real_ip /\ a # ""
        \/ req.x_forwarded_for = "" /\ req.x_real_ip = "" /\ a = req.remote_addr

\* rp answers a contact request that was stored
ContactCreated(rp) == rp.op = "ContactCreate" /\ rp.status = StatusCreated

\* C26: the contact that a request creates is stored with the address the
\* request names, which is never null, and with the user agent of the
\* request's header, whatever the body holds.
C26_ClientInfoStored ==
    [][ContactCreated(resp')
         => LET c == Row(db'.contact_submissions, resp'.id)
            IN /\ ~IsNil(c.ip_address)
               /\ IPString(Deref(c.ip_address))
                    = Chars(PreferredAddress(resp'.req))
               /\ c.user_agent = <<resp'.req.header_user_agent>>]_vars

\* the stored address is what the named address parses to, null when that
\* text is not one address, as the address of the connection with its port
\* never is; the user agent is the header's; the body decides neither
C26_ClientInfoParsed ==
    [][ContactCreated(resp')
         => LET c == Row(db'.contact_submissions, resp'.id)
                req == resp'.req
            IN /\ c.ip_address = ParseIP(PreferredAddress(req))
               /\ ~IsNil(c.ip_address)
                    => IPString(Deref(c.ip_address)) = Chars(PreferredAddress(req))
               /\ (req.x_forwarded_for = "" /\ req.x_real_ip = "")
                    => IsNil(c.ip_address)
               /\ c.user_agent = <<req.header_user_agent>>]_vars

\* a contact sent without forwarding headers is stored without address
C26_AddressNull ==
    /\ ContactCreated(resp)
    /\ resp.req.x_forwarded_for = ""
    /\ resp.req.x_real_ip = ""
    /\ resp.req.ip_address = <<"7.7.7.7">>
    /\ IsNil(Row(db.contact_submissions, resp.id).ip_address)

\* a contact sent with one forwarded address is stored with it
C26_AddressStored ==
    /\ ContactCreated(resp)
    /\ resp.req.x_forwarded_for = "1.2.3.4"
    /\ resp.req.ip_address = <<"7.7.7.7">>
    /\ Row(db.contact_submissions, resp.id).ip_address = <<(<<1, 2, 3, 4>>)>>


-----------------------------------------------------------------------------
(* The body of a response: response.APIResponse as the functions of the     *)
(* package response fill it.  A field that is nil or empty is left out of   *)
(* the JSON text (omitempty).                                               *)

\* response.JSON
JSON(status, data) ==
    [success |-> status >= 200 /\ status < 300, data |-> <<data>>,
     error |-> <<>>, meta |-> <<>>]

\* response.JSONWithMeta
JSONWithMeta(status, data, meta) ==
    [success |-> status >= 200 /\ status < 300, data |-> <<data>>,
     error |-> <<>>, meta |-> <<meta>>]

\* faulty variant of Error (sensitivity of C27): the error object is left out
ErrorWithoutObject(status, code, message) ==
    [success |-> FALSE, data |-> <<>>, error |-> <<>>, meta |-> <<>>]

\* response.Error
Error(status, code, message) ==
    [success |-> FALSE, data |-> <<>>,
     error |-> <<[code |-> code, message |-> message, details |-> {}]>>,
     meta |-> <<>>]

\* response.ErrorWithDetails
ErrorWithDetails(status, code, message, details) ==
    [success |-> FALSE, data |-> <<>>,
     error |-> <<[code |-> code, message |-> message, details |-> details]>>,
     meta |-> <<>>]

\* response.NoContent: the status line alone, no body is written
NoContent == <<>>

\* the code that BadRequest, NotFound, Conflict, InternalError and the
\* router's 405 handler pass to Error
ErrorCode(status) ==
    CASE status = StatusBadRequest -> "BAD_REQUEST"
      [] status = StatusNotFound -> "NOT_FOUND"
      [] status = StatusMethodNotAllowed -> "METHOD_NOT_ALLOWED"
      [] status = StatusConflict -> "CONFLICT"
      [] status = StatusInternalServerError -> "INTERNAL_ERROR"

\* the handlers that answer with JSONWithMeta
ListOps == {"ContactList", "ContentPostList"}

\* the body that the handler of the answer rp writes; the message of an
\* error is a literal of the handler, written "message"
Body(rp) ==
    CASE rp.status = StatusNoContent -> NoContent
      [] rp.status \in {StatusOK, StatusCreated} ->
           IF rp.op \in ListOps
           THEN JSONWithMeta(rp.status, rp.data.rows, rp.data.meta)
           ELSE JSON(rp.status, rp.data)
      [] rp.status = StatusUnprocessableEntity ->
           ErrorWithDetails(rp.status, "VALIDATION_ERROR", "Validation failed",
                            rp.details)
      [] OTHER -> Error(rp.status, ErrorCode(rp.status), "message")

\* a request has been answered
Answered == resp.op # "none"

Is2xx(status) == status >= 200 /\ status < 300

\* what the envelope of the body b of an answer with this status is to hold
Enveloped(op, status, b) ==
    /\ b.success <=> Is2xx(status)
    /\ ~b.success => /\ ~IsNil(b.error)
                     /\ Deref(b.error).code # ""
                     /\ Deref(b.error).message # ""
                     /\ IsNil(b.data)
    /\ b.success => IsNil(b.error)
    /\ ~IsNil(b.meta) => op \in ListOps

\* C27: every response is wrapped in the envelope, with success true exactly
\* when the status is 2xx, an error object with code and message and no data
\* when it failed, no error object when it succeeded, meta on list responses
\* only, and a status among 200, 201, 204, 400, 404, 405, 409, 422 and 500.
C27_Envelope ==
    Answered
        => /\ resp.status \in {200, 201, 204, 400, 404, 405, 409, 422, 500}
           /\ Body(resp) # <<>>
           /\ Enveloped(resp.op, resp.status, Body(resp))

\* every response that has a body is wrapped in the envelope, and the
\* responses without body are those with status 204
C27_EnvelopeOfBody ==
    Answered
        => /\ resp.status \in {200, 201, 204, 400, 404, 405, 409, 422, 500}
           /\ Body(resp) = <<>> <=> resp.status = StatusNoContent
           /\ Body(resp) # <<>> => Enveloped(resp.op, resp.status, Body(resp))

\* a list has been answered with rows and meta
C27_Witness ==
    /\ resp.op = "ContactList"
    /\ resp.status = StatusOK
    /\ Body(resp).success
    /\ ~IsNil(Body(resp).meta)
    /\ Deref(Body(resp).data) # <<>>

\* a deletion has been answered without body
C27_DeletedWithoutBody ==
    /\ resp.op = "ContactDelete"
    /\ resp.status = StatusNoContent
    /\ Body(resp) = <<>>


-----------------------------------------------------------------------------
(* Referential integrity *)

\* every reference of the store d names a stored row, and a post holds a
\* media at most once
ReferencesStored(d) ==
    /\ \A p \in d.content_posts :
           /\ p.content_type_id \in Ids(d.content_types)
           /\ p.author_id \in Ids(d.users)
    /\ \A pt \in d.post_tags :
           pt[1] \in Ids(d.content_posts) /\ pt[2] \in Ids(d.tags)
    /\ \A pm \in d.post_media :
           /\ pm.post_id \in Ids(d.content_posts)
           /\ pm.media_id \in Ids(d.media)
    /\ \A pm1, pm2 \in d.post_media :
           (pm1.post_id = pm2.post_id /\ pm1.media_id = pm2.media_id)
               => pm1 = pm2

\* no association of the store d names the post or tag id
Unreferenced(d, id) ==
    /\ \A pt \in d.post_tags : pt[1] # id /\ pt[2] # id
    /\ \A pm \in d.post_media : pm.post_id # id

\* C28: in every reachable state each post references a stored content type,
\* each association a stored post and a stored tag or media, with one
\* association at most per post and media; after the delete of a post or a
\* tag no association refers to it.
C28_ReferentialIntegrity ==
    /\ []ReferencesStored(db)
    /\ [][(resp'.op \in {"PostDelete", "TagDelete"}
             /\ resp'.status = StatusNoContent)
            => Unreferenced(db', resp'.id)]_vars

\* a tag that a post holds has been deleted and the post holds its other tag
C28_Witness ==
    /\ resp.op = "TagDelete"
    /\ resp.status = StatusNoContent
    /\ resp.id = 21
    /\ \E p \in db.content_posts : getPostTags(db, p.id) = {Row(db.tags, 22)}


-----------------------------------------------------------------------------
(* Reads by slug among writes *)

\* the step is the last query of a read by slug, answered with a post
AnswersLookup ==
    /\ lookup.pc = "tags"
    /\ lookup' = Idle
    /\ resp'.op = "PostGetBySlug"
    /\ resp'.status = StatusOK

\* C29: a read by slug that succeeds returns a post whose slug is the slug
\* asked for, with the tags and the media of that post (the answer is the
\* post as it was stored at some moment of the read), whatever updates and
\* deletes of posts run between its queries.
C29_GetBySlugAmongWrites ==
    [][AnswersLookup
         => /\ resp'.data.post.slug = resp'.req.slug
            /\ resp'.data \in lookup.snaps]_vars

\* a read by slug during which its post was not written answers with the
\* post as stored, whose slug is the slug asked for
C29_GetBySlugOfQuietPost ==
    [][(AnswersLookup /\ Cardinality(lookup.snaps) = 1)
         => /\ resp'.data.post.slug = resp'.req.slug
            /\ resp'.data = PostGetBySlug(db', resp'.req.slug).data]_vars

\* a read of slug "s1" has been answered with a post whose slug is "s2"
C29_AnsweredRenamedPost ==
    /\ resp.op = "PostGetBySlug"
    /\ resp.status = StatusOK
    /\ resp.req.slug = "s1"
    /\ resp.data.post.slug = "s2"

\* a read has been answered with the row of a post and the tags that an
\* update stored together with another slug
C29_AnsweredTornPost ==
    /\ resp.op = "PostGetBySlug"
    /\ resp.status = StatusOK
    /\ resp.data.post.slug = "s1"
    /\ Ids(resp.data.tags) = {22}
    /\ \E p \in db.content_posts :
           p.id = resp.id /\ p.slug = "s2" /\ Ids(getPostTags(db, p.id)) = {22}

====
